---------------------------- MODULE Spec2Model ----------------------------
(***************************************************************************)
(* A model of lkr, a file-based knowledge-entry repository: the value      *)
(* types (EntryId, Tag), the front-matter schema, the entry parser and     *)
(* serializer, the repository layout and the validation engine.            *)
(*                                                                         *)
(* Text is modelled as a sequence of one-character strings, so that        *)
(* strip, lower, slicing, splitting and concatenation are computed the     *)
(* way the Python code computes them.                                      *)
(***************************************************************************)
EXTENDS Integers, Sequences, FiniteSets, TLC

VARIABLES
    files,      \* the entries/ tree: path below entries/ -> file content
    today,      \* what date.today() returns
    ret,        \* what the last repository operation returned
    lastSaved,  \* history: id value -> front matter of the latest save_entry
    input,      \* argument of the constructor or conversion being run
    output,     \* its result (None before the call)
    disk,       \* the root directory outside entries/: directories made,
                \* config.yaml, README.md and .gitignore (None when absent)
    procs       \* the save_entry calls that run concurrently in several
                \* processes, each at its next filesystem step

vars == <<files, today, ret, lastSaved, input, output, disk, procs>>

(***************************************************************************)
(* Characters and strings                                                  *)
(***************************************************************************)
DigitChars == <<"0","1","2","3","4","5","6","7","8","9">>

LowerChars ==
    <<"a","b","c","d","e","f","g","h","i","j","k","l","m",
      "n","o","p","q","r","s","t","u","v","w","x","y","z">>

UpperChars ==
    <<"A","B","C","D","E","F","G","H","I","J","K","L","M",
      "N","O","P","Q","R","S","T","U","V","W","X","Y","Z">>

Range(s) == {s[i] : i \in DOMAIN s}

IsDigit(c) == c \in Range(DigitChars)
IsLowerChar(c) == c \in Range(LowerChars)
IsUpperChar(c) == c \in Range(UpperChars)
IsSpace(c) == c \in {" ", "\n", "\t"}

\* code points, as far as ordering goes: the characters in ASCII order
AsciiOrder ==
    <<"\t", "\n", " ", "!", "'", ",", "-", ".">> \o DigitChars \o <<":">>
        \o UpperChars \o <<"[", "]", "_">> \o LowerChars \o <<"~">>

Ord(c) == CHOOSE i \in DOMAIN AsciiOrder : AsciiOrder[i] = c

LowerChar(c) ==
    IF IsUpperChar(c)
    THEN LowerChars[CHOOSE i \in DOMAIN UpperChars : UpperChars[i] = c]
    ELSE c

\* str.lower()
Lower(s) == [i \in DOMAIN s |-> LowerChar(s[i])]

RECURSIVE LStrip(_)
LStrip(s) == IF s # <<>> /\ IsSpace(Head(s)) THEN LStrip(Tail(s)) ELSE s

RECURSIVE RStrip(_)
RStrip(s) ==
    IF s # <<>> /\ IsSpace(s[Len(s)]) THEN RStrip(SubSeq(s, 1, Len(s) - 1)) ELSE s

\* str.strip()
Strip(s) == RStrip(LStrip(s))

\* s[:n]
Take(s, n) == SubSeq(s, 1, IF Len(s) < n THEN Len(s) ELSE n)

\* str < str, by code point
RECURSIVE StrLess(_, _)
StrLess(a, b) ==
    IF b = <<>> THEN FALSE
    ELSE IF a = <<>> THEN TRUE
    ELSE IF Head(a) = Head(b) THEN StrLess(Tail(a), Tail(b))
    ELSE Ord(Head(a)) < Ord(Head(b))

RECURSIVE Repeat(_, _)
Repeat(c, n) == IF n <= 0 THEN <<>> ELSE <<c>> \o Repeat(c, n - 1)

\* a local variable: e is computed once and F applied to its value
Bind(e, F(_)) == CHOOSE r \in {F(x) : x \in {e}} : TRUE

(***************************************************************************)
(* EntryId and Tag                                                         *)
(***************************************************************************)
MaxIdLen == 8

ALPHABET == DigitChars \o LowerChars

IsBase36Char(c) == c \in Range(ALPHABET)

\* re.match(r"^[0-9a-z]{1,8}$", v): "$" also matches before one final newline
BASE36_RE(v) ==
    LET core == IF v # <<>> /\ v[Len(v)] = "\n" THEN SubSeq(v, 1, Len(v) - 1) ELSE v
    IN  /\ Len(core) >= 1
        /\ Len(core) <= MaxIdLen
        /\ \A i \in DOMAIN core : IsBase36Char(core[i])

Raised == [raised |-> "ValueError"]

Ok(v) == [value |-> v]

IsOk(r) == "value" \in DOMAIN r

\* EntryId.__init__ without the strip()
EntryId_NoStrip(raw) ==
    LET v == Lower(raw) IN IF BASE36_RE(v) THEN Ok(v) ELSE Raised

\* EntryId.__init__: the constructed id's value, or ValueError
EntryId(raw) ==
    LET v == Lower(Strip(raw)) IN IF BASE36_RE(v) THEN Ok(v) ELSE Raised

\* EntryId.prefix
prefix(value) == Take(value, 2)

\* Tag.__init__
Tag(raw) ==
    LET v == Lower(Strip(raw)) IN IF v = <<>> THEN Raised ELSE Ok(v)

(***************************************************************************)
(* Calendar dates (datetime.date)                                          *)
(***************************************************************************)
MINYEAR == 1
MAXYEAR == 9999

IsLeap(y) == (y % 4 = 0 /\ y % 100 # 0) \/ y % 400 = 0

DaysInMonth(y, m) ==
    IF m = 2 THEN (IF IsLeap(y) THEN 29 ELSE 28)
    ELSE IF m \in {4, 6, 9, 11} THEN 30 ELSE 31

ValidDate(y, m, d) ==
    /\ y >= MINYEAR /\ y <= MAXYEAR
    /\ m >= 1 /\ m <= 12
    /\ d >= 1 /\ d <= DaysInMonth(y, m)

Date(y, m, d) == [y |-> y, m |-> m, d |-> d]

DigitVal(c) == (CHOOSE i \in DOMAIN DigitChars : DigitChars[i] = c) - 1

AllDigits(s) == \A i \in DOMAIN s : IsDigit(s[i])

\* value of a digit string in the given base
RECURSIVE Num(_, _)
Num(s, base) ==
    IF s = <<>> THEN 0
    ELSE Num(SubSeq(s, 1, Len(s) - 1), base) * base + DigitVal(s[Len(s)])

RECURSIVE Pow10(_)
Pow10(k) == IF k = 0 THEN 1 ELSE 10 * Pow10(k - 1)

\* n in decimal, zero-padded to w digits
Dec(n, w) == [i \in 1..w |-> DigitChars[((n \div Pow10(w - i)) % 10) + 1]]

\* str(n) for n >= 0
RECURSIVE IntStr(_)
IntStr(n) == IF n < 10 THEN <<DigitChars[n + 1]>> ELSE IntStr(n \div 10) \o <<DigitChars[(n % 10) + 1]>>

\* date.isoformat()
isoformat(dt) == Dec(dt.y, 4) \o <<"-">> \o Dec(dt.m, 2) \o <<"-">> \o Dec(dt.d, 2)

\* date.fromisoformat(s): YYYY-MM-DD or YYYYMMDD (ISO week forms are not
\* among the modelled inputs)
fromisoformat(s) ==
    LET ext == /\ Len(s) = 10 /\ s[5] = "-" /\ s[8] = "-"
               /\ AllDigits(SubSeq(s, 1, 4) \o SubSeq(s, 6, 7) \o SubSeq(s, 9, 10))
        bas == Len(s) = 8 /\ AllDigits(s)
        y == Num(SubSeq(s, 1, 4), 10)
        m == IF ext THEN Num(SubSeq(s, 6, 7), 10) ELSE Num(SubSeq(s, 5, 6), 10)
        d == IF ext THEN Num(SubSeq(s, 9, 10), 10) ELSE Num(SubSeq(s, 7, 8), 10)
    IN  IF (ext \/ bas) /\ ValidDate(y, m, d) THEN Ok(Date(y, m, d)) ELSE Raised

\* days since 1970-01-01 (proleptic Gregorian), as date.toordinal() differences
DaysFromCivil(dt) ==
    LET y == IF dt.m <= 2 THEN dt.y - 1 ELSE dt.y
        era == y \div 400
        yoe == y - era * 400
        mp == (dt.m + 9) % 12
        doy == (153 * mp + 2) \div 5 + dt.d - 1
        doe == yoe * 365 + yoe \div 4 - yoe \div 100 + doy
    IN  era * 146097 + doe - 719468

CivilFromDays(z0) ==
    LET z == z0 + 719468
        era == z \div 146097
        doe == z - era * 146097
        yoe == (doe - doe \div 1460 + doe \div 36524 - doe \div 146096) \div 365
        doy == doe - (365 * yoe + yoe \div 4 - yoe \div 100)
        mp == (5 * doy + 2) \div 153
        d == doy - (153 * mp + 2) \div 5 + 1
        m == IF mp < 10 THEN mp + 3 ELSE mp - 9
        y == yoe + era * 400 + (IF m <= 2 THEN 1 ELSE 0)
    IN  Date(y, m, d)

(***************************************************************************)
(* Python values, as yaml.safe_load produces them and as the code passes   *)
(* them to EntryFrontMatter.  Each kind is a record with its own field.    *)
(***************************************************************************)
PyNone == [none |-> TRUE]
PyStr(s) == [str |-> s]
PyInt(n) == [int |-> n]
PyBool(b) == [bool |-> b]
PyDate(dt) == [date |-> dt]
PyDateTime(dt, secs) == [datetime |-> dt, secs |-> secs]
PyList(xs) == [list |-> xs]
PyDict(ps) == [dict |-> ps]
PyEntryId(v) == [entryid |-> v]
PyTag(v) == [tagobj |-> v]

Is(v, kind) == kind \in DOMAIN v

None == PyNone
Some(v) == [some |-> v]
IsNone(o) == Is(o, "none")

\* "a, b, c" for the items of a list's str()
RECURSIVE JoinWith(_, _)
JoinWith(parts, sep) ==
    IF parts = <<>> THEN <<>>
    ELSE IF Len(parts) = 1 THEN parts[1]
    ELSE parts[1] \o sep \o JoinWith(Tail(parts), sep)

\* Python's str(v); a list's items are shown by str() too (repr's quotes are
\* left out: no caller's outcome depends on them)
RECURSIVE Str(_)
Str(v) ==
    IF Is(v, "str") THEN v.str
    ELSE IF Is(v, "none") THEN <<"N","o","n","e">>
    ELSE IF Is(v, "bool") THEN (IF v.bool THEN <<"T","r","u","e">> ELSE <<"F","a","l","s","e">>)
    ELSE IF Is(v, "int") THEN (IF v.int < 0 THEN <<"-">> \o IntStr(-v.int) ELSE IntStr(v.int))
    ELSE IF Is(v, "date") THEN isoformat(v.date)
    ELSE IF Is(v, "datetime") THEN isoformat(v.datetime) \o <<" ">> \o Dec(v.secs \div 3600, 2)
            \o <<":">> \o Dec((v.secs \div 60) % 60, 2) \o <<":">> \o Dec(v.secs % 60, 2)
    ELSE IF Is(v, "entryid") THEN v.entryid
    ELSE IF Is(v, "tagobj") THEN v.tagobj
    ELSE IF Is(v, "list")
        THEN <<"[">> \o JoinWith([i \in DOMAIN v.list |-> Str(v.list[i])], <<",", " ">>) \o <<"]">>
    ELSE <<"{", "}">>

(***************************************************************************)
(* The YAML block of an entry file: scalars (text, quoted or plain),       *)
(* sequences and mappings, and what PyYAML's safe loader and dumper make   *)
(* of them.                                                                *)
(***************************************************************************)
Scalar(text, quoted) == [text |-> text, quoted |-> quoted]
Plain(text) == Scalar(text, FALSE)
Quoted(text) == Scalar(text, TRUE)
YSeq(items) == [items |-> items]
YMap(pairs) == [pairs |-> pairs]

YamlError == [raised |-> "YAMLError"]

NullTexts == {<<>>, <<"~">>, <<"n","u","l","l">>, <<"N","u","l","l">>, <<"N","U","L","L">>}
TrueTexts == {<<"t","r","u","e">>, <<"T","r","u","e">>, <<"y","e","s">>, <<"o","n">>}
FalseTexts == {<<"f","a","l","s","e">>, <<"F","a","l","s","e">>, <<"n","o">>, <<"o","f","f">>}

IsDecInt(t) ==
    /\ t # <<>> /\ AllDigits(t)
    /\ (t = <<"0">> \/ t[1] # "0")

IsOctInt(t) ==
    /\ Len(t) >= 2 /\ t[1] = "0"
    /\ \A i \in 2..Len(t) : IsDigit(t[i]) /\ DigitVal(t[i]) <= 7

\* the pieces of t between "-" characters
RECURSIVE SplitOn(_, _)
SplitOn(t, sep) ==
    IF \A i \in DOMAIN t : t[i] # sep THEN <<t>>
    ELSE LET k == CHOOSE i \in DOMAIN t : t[i] = sep /\ \A j \in 1..(i - 1) : t[j] # sep
         IN  <<SubSeq(t, 1, k - 1)>> \o SplitOn(SubSeq(t, k + 1, Len(t)), sep)

\* YYYY-M[M]-D[D], PyYAML's date-only timestamp
IsDateText(t) ==
    LET ps == SplitOn(t, "-")
    IN  /\ Len(ps) = 3
        /\ Len(ps[1]) = 4 /\ Len(ps[2]) \in {1, 2} /\ Len(ps[3]) \in {1, 2}
        /\ \A i \in 1..3 : AllDigits(ps[i])

\* the implicit resolver and constructor: what a plain scalar loads as
ResolvePlain(t) ==
    IF t \in NullTexts THEN PyNone
    ELSE IF t \in TrueTexts THEN PyBool(TRUE)
    ELSE IF t \in FalseTexts THEN PyBool(FALSE)
    ELSE IF IsDecInt(t) THEN PyInt(Num(t, 10))
    ELSE IF IsOctInt(t) THEN PyInt(Num(t, 8))
    ELSE IF IsDateText(t)
        THEN LET ps == SplitOn(t, "-")
                 y == Num(ps[1], 10)  m == Num(ps[2], 10)  d == Num(ps[3], 10)
             IN  IF ValidDate(y, m, d) THEN PyDate(Date(y, m, d)) ELSE YamlError
    ELSE PyStr(t)

\* characters a plain scalar may not begin with, or hold
PlainSafe(t) ==
    /\ t # <<>>
    /\ ~IsSpace(t[1]) /\ ~IsSpace(t[Len(t)])
    /\ t[1] \notin {"[", "]", "!", "'", ",", "-", "~", ":", "{", "}"}
    /\ \A i \in DOMAIN t : t[i] \notin {"\n", "\t", ":"}

\* the dumper emits a str as a plain scalar only where it would load as that str
DumpStr(s) ==
    IF PlainSafe(s) /\ ResolvePlain(s) = PyStr(s) THEN Plain(s) ELSE Quoted(s)

RECURSIVE YamlDump(_)
YamlDump(v) ==
    IF Is(v, "str") THEN DumpStr(v.str)
    ELSE IF Is(v, "list") THEN YSeq([i \in DOMAIN v.list |-> YamlDump(v.list[i])])
    ELSE IF Is(v, "dict") THEN YMap({<<p[1], YamlDump(p[2])>> : p \in v.dict})
    ELSE IF Is(v, "none") THEN Plain(<<"n","u","l","l">>)
    ELSE IF Is(v, "int") THEN Plain(Str(v))
    ELSE IF Is(v, "bool") THEN Plain(IF v.bool THEN <<"t","r","u","e">> ELSE <<"f","a","l","s","e">>)
    ELSE Plain(Str(v))

RECURSIVE YamlLoad(_)
YamlLoad(node) ==
    IF Is(node, "text")
    THEN IF node.quoted THEN PyStr(node.text) ELSE ResolvePlain(node.text)
    ELSE IF Is(node, "items")
    THEN LET xs == [i \in DOMAIN node.items |-> YamlLoad(node.items[i])]
         IN  IF \E i \in DOMAIN xs : Is(xs[i], "raised") THEN YamlError ELSE PyList(xs)
    ELSE LET ps == {<<p[1], YamlLoad(p[2])>> : p \in node.pairs}
         IN  IF \E p \in ps : Is(p[2], "raised") THEN YamlError ELSE PyDict(ps)

(***************************************************************************)
(* EntryFrontMatter (models.py)                                            *)
(***************************************************************************)
Q_AND_A == <<"q","-","a","n","d","-","a">>
GUIDE == <<"g","u","i","d","e">>
PATTERN == <<"p","a","t","t","e","r","n">>
NOTE == <<"n","o","t","e">>
EntryType == {Q_AND_A, GUIDE, PATTERN, NOTE}

DRAFT == <<"d","r","a","f","t">>
REVIEWED == <<"r","e","v","i","e","w","e","d">>
OUTDATED == <<"o","u","t","d","a","t","e","d">>
EntryStatus == {DRAFT, REVIEWED, OUTDATED}

SecondsPerDay == 86400

\* _parse_id
parse_id(v) == IF Is(v, "entryid") THEN Ok(v.entryid) ELSE EntryId(Str(v))

\* [f(x) for x in xs], failing when one element fails
MapOk(rs) ==
    IF \E i \in DOMAIN rs : ~IsOk(rs[i]) THEN Raised
    ELSE Ok([i \in DOMAIN rs |-> rs[i].value])

\* _parse_tags
parse_tags(v) ==
    IF ~Is(v, "list") THEN Raised
    ELSE MapOk([i \in DOMAIN v.list |->
            IF Is(v.list[i], "tagobj") THEN Ok(v.list[i].tagobj) ELSE Tag(Str(v.list[i]))])

\* _parse_related
parse_related(v) ==
    IF Is(v, "none") THEN Ok(None)
    ELSE IF ~Is(v, "list") THEN Raised
    ELSE LET r == MapOk([i \in DOMAIN v.list |->
                    IF Is(v.list[i], "entryid") THEN Ok(v.list[i].entryid)
                    ELSE EntryId(Str(v.list[i]))])
         IN  IF IsOk(r) THEN Ok(Some(r.value)) ELSE Raised

\* _parse_date, then the field's own date validation: any other value is
\* returned as it is, and of those only a whole-day unix timestamp is a date
parse_date(v) ==
    IF Is(v, "none") THEN Ok(None)
    ELSE IF Is(v, "date") THEN Ok(Some(v.date))
    ELSE IF Is(v, "datetime") THEN Ok(Some(v.datetime))
    ELSE IF Is(v, "str")
        THEN LET r == fromisoformat(v.str) IN IF IsOk(r) THEN Ok(Some(r.value)) ELSE Raised
    ELSE IF Is(v, "int") /\ v.int % SecondsPerDay = 0
        THEN Ok(Some(CivilFromDays(v.int \div SecondsPerDay)))
    ELSE Raised

\* a field declared str | None
OptStr(m, k) ==
    IF k \notin DOMAIN m \/ Is(m[k], "none") THEN Ok(None)
    ELSE IF Is(m[k], "str") THEN Ok(Some(m[k].str))
    ELSE Raised

\* a field declared as an enum of strings
EnumField(v, members) ==
    IF Is(v, "str") /\ v.str \in members THEN Ok(v.str) ELSE Raised

\* source: dict[str, str] | None
SourceField(m) ==
    IF "source" \notin DOMAIN m \/ Is(m.source, "none") THEN Ok(None)
    ELSE IF Is(m.source, "dict") /\ \A p \in m.source.dict : Is(p[2], "str")
        THEN Ok(Some({<<p[1], p[2].str>> : p \in m.source.dict}))
    ELSE Raised

RequiredFields == {"id", "title", "type", "tags", "created"}

\* EntryFrontMatter(**m): the front matter, or the validation error
EntryFrontMatter(m) ==
    IF ~(RequiredFields \subseteq DOMAIN m) THEN Raised
    ELSE
    LET idR == parse_id(m.id)
        titleR == IF Is(m.title, "str") THEN Ok(m.title.str) ELSE Raised
        typeR == EnumField(m.type, EntryType)
        tagsR == parse_tags(m.tags)
        createdR == parse_date(m.created)
        updatedR == IF "updated" \in DOMAIN m THEN parse_date(m.updated) ELSE Ok(None)
        statusR ==
            IF "status" \notin DOMAIN m \/ Is(m.status, "none") THEN Ok(None)
            ELSE LET r == EnumField(m.status, EntryStatus)
                 IN  IF IsOk(r) THEN Ok(Some(r.value)) ELSE Raised
        difficultyR == OptStr(m, "difficulty")
        authorR == OptStr(m, "author")
        relatedR == IF "related" \in DOMAIN m THEN parse_related(m.related) ELSE Ok(None)
        sourceR == SourceField(m)
    IN  IF /\ IsOk(idR) /\ IsOk(titleR) /\ IsOk(typeR) /\ IsOk(tagsR)
           /\ IsOk(createdR) /\ ~IsNone(createdR.value)
           /\ IsOk(updatedR) /\ IsOk(statusR) /\ IsOk(difficultyR) /\ IsOk(authorR)
           /\ IsOk(relatedR) /\ IsOk(sourceR)
           /\ Strip(titleR.value) # <<>>
        THEN Ok([id |-> idR.value, title |-> titleR.value, type |-> typeR.value,
                 tags |-> tagsR.value, created |-> createdR.value.some,
                 updated |-> updatedR.value, status |-> statusR.value,
                 difficulty |-> difficultyR.value, author |-> authorR.value,
                 related |-> relatedR.value, source |-> sourceR.value])
        ELSE Raised

(***************************************************************************)
(* Entry files: parse_entry, serialize_entry (entry.py)                    *)
(***************************************************************************)
\* an entry file: a YAML block (key -> node) and a body; or text that
\* frontmatter.load cannot read
EntryFile(meta, body) == [meta |-> meta, body |-> body]
Unreadable == [unreadable |-> TRUE]

Entry(fm, body, path) == [front_matter |-> fm, body |-> body, source_path |-> path]

EntryParseError(path, reason) == [raised |-> "EntryParseError", path |-> path, reason |-> reason]

\* frontmatter.load: the metadata mapping of a file
FrontmatterLoad(content) ==
    IF Is(content, "unreadable") THEN YamlError
    ELSE LET md == [k \in DOMAIN content.meta |-> YamlLoad(content.meta[k])]
         IN  IF \E k \in DOMAIN md : Is(md[k], "raised") THEN YamlError ELSE Ok(md)

parse_entry(path, content) ==
    Bind(FrontmatterLoad(content), LAMBDA post :
        IF ~IsOk(post) THEN EntryParseError(path, "Failed to read")
        ELSE Bind(EntryFrontMatter(post.value), LAMBDA fm :
                IF ~IsOk(fm) THEN EntryParseError(path, "Invalid front matter")
                ELSE Ok(Entry(fm.value, content.body, Some(path)))))

OptionalKeys(fm) ==
    (IF ~IsNone(fm.updated) THEN {"updated"} ELSE {})
        \cup (IF ~IsNone(fm.status) THEN {"status"} ELSE {})
        \cup (IF ~IsNone(fm.difficulty) THEN {"difficulty"} ELSE {})
        \cup (IF ~IsNone(fm.author) THEN {"author"} ELSE {})
        \cup (IF ~IsNone(fm.related) /\ fm.related.some # <<>> THEN {"related"} ELSE {})
        \cup (IF ~IsNone(fm.source) THEN {"source"} ELSE {})

\* the metadata dict serialize_entry builds
Metadata(fm) ==
    [k \in RequiredFields \cup OptionalKeys(fm) |->
        CASE k = "id" -> PyStr(fm.id)
          [] k = "title" -> PyStr(fm.title)
          [] k = "type" -> PyStr(fm.type)
          [] k = "tags" -> PyList([i \in DOMAIN fm.tags |-> PyStr(fm.tags[i])])
          [] k = "created" -> PyStr(isoformat(fm.created))
          [] k = "updated" -> PyStr(isoformat(fm.updated.some))
          [] k = "status" -> PyStr(fm.status.some)
          [] k = "difficulty" -> PyStr(fm.difficulty.some)
          [] k = "author" -> PyStr(fm.author.some)
          [] k = "related" -> PyList([i \in DOMAIN fm.related.some |-> PyStr(fm.related.some[i])])
          [] k = "source" -> PyDict({<<p[1], PyStr(p[2])>> : p \in fm.source.some})]

\* serialize_entry: the text written, as the YAML block and body it holds
serialize_entry(entry) ==
    LET md == Metadata(entry.front_matter)
    IN  EntryFile([k \in DOMAIN md |-> YamlDump(md[k])], entry.body)

(***************************************************************************)
(* ID generation (idgen.py).  A random draw is the five bytes that         *)
(* secrets.token_bytes returns; the integer int.from_bytes makes of them   *)
(* is kept as its base-256 digits, most significant first.                 *)
(***************************************************************************)
Base == 36
ByteBase == 256
IdLength == 8

IsZero(n) == \A i \in DOMAIN n : n[i] = 0

\* divmod(n, 36) by long division
RECURSIVE LongDiv(_, _, _)
LongDiv(n, carry, acc) ==
    IF n = <<>> THEN [q |-> acc, r |-> carry]
    ELSE LET cur == carry * ByteBase + Head(n)
         IN  LongDiv(Tail(n), cur % Base, Append(acc, cur \div Base))

DivMod36(n) == LongDiv(n, 0, <<>>)

\* the while loop with the digits left in the order they are found
RECURSIVE EncodeLoop_NotReversed(_)
EncodeLoop_NotReversed(n) ==
    IF IsZero(n) THEN <<>>
    ELSE LET dm == DivMod36(n) IN <<ALPHABET[dm.r + 1]>> \o EncodeLoop_NotReversed(dm.q)

\* the while loop of encode_base36, read back most significant digit first
RECURSIVE EncodeLoop(_)
EncodeLoop(n) ==
    IF IsZero(n) THEN <<>>
    ELSE LET dm == DivMod36(n) IN EncodeLoop(dm.q) \o <<ALPHABET[dm.r + 1]>>

\* a Python int: its sign and its magnitude in bytes, most significant first
BigInt(sign, mag) == [sign |-> sign, mag |-> mag]

\* int.from_bytes(b, "big")
from_bytes(b) == BigInt(1, b)

\* n < 0
IsNegative(n) == n.sign < 0 /\ ~IsZero(n.mag)

\* encode_base36(n): the text, or ValueError
encode_base36(n) ==
    IF IsNegative(n) THEN Raised
    ELSE IF IsZero(n.mag) THEN Ok(<<"0">>)
    ELSE Ok(EncodeLoop(n.mag))

\* mag * 36 + carry, on bytes
RECURSIVE MulAdd36(_, _)
MulAdd36(mag, carry) ==
    IF mag = <<>> THEN IF carry = 0 THEN <<>> ELSE <<carry>>
    ELSE LET cur == mag[Len(mag)] * Base + carry
         IN  MulAdd36(SubSeq(mag, 1, Len(mag) - 1), cur \div ByteBase) \o <<cur % ByteBase>>

\* the value of a digit of int(s, 36): letters count in either case
DigitValue36(c) == (CHOOSE i \in DOMAIN ALPHABET : ALPHABET[i] = LowerChar(c)) - 1

RECURSIVE DecodeLoop(_, _)
DecodeLoop(digits, mag) ==
    IF digits = <<>> THEN mag
    ELSE DecodeLoop(Tail(digits), MulAdd36(mag, DigitValue36(Head(digits))))

\* the digits int() accepts: base-36 characters, single underscores between them
ValidDigits(t) ==
    /\ t # <<>> /\ t[1] # "_" /\ t[Len(t)] # "_"
    /\ \A i \in DOMAIN t : t[i] = "_" \/ IsBase36Char(LowerChar(t[i]))
    /\ \A i \in 1..(Len(t) - 1) : ~(t[i] = "_" /\ t[i + 1] = "_")

\* decode_base36(s) = int(s, 36): the int, or ValueError
decode_base36(s) ==
    LET t == Strip(s)
        signed == t # <<>> /\ t[1] \in {"+", "-"}
        digits == IF signed THEN Tail(t) ELSE t
        IsDigit36(c) == c # "_"
    IN  IF ValidDigits(digits)
        THEN Ok(BigInt(IF signed /\ t[1] = "-" THEN -1 ELSE 1,
                    DecodeLoop(SelectSeq(digits, IsDigit36), <<>>)))
        ELSE Raised

\* str.ljust that adds nothing
ljust_NoPad(s, width, fill) == s

\* is_valid_base36(s)
is_valid_base36(s) ==
    s # <<>> /\ Len(s) <= 8 /\ \A i \in DOMAIN s : s[i] \in Range(ALPHABET)

\* str.ljust
ljust(s, width, fill) == s \o Repeat(fill, width - Len(s))

\* generate_id, for the random draw given
generate_id(draw) ==
    EntryId(Take(ljust(encode_base36(from_bytes(draw)).value, IdLength, "0"), IdLength))

\* create_entry: the new entry, or the error raised
create_entry(entry_type, title, tags, author, draw, day) ==
    Bind(generate_id(draw), LAMBDA entry_id :
    Bind(MapOk([i \in DOMAIN tags |-> Tag(tags[i])]), LAMBDA parsed_tags :
        IF ~IsOk(entry_id) \/ ~IsOk(parsed_tags) THEN Raised
        ELSE Bind(EntryFrontMatter(
                    [id |-> PyEntryId(entry_id.value),
                     title |-> PyStr(title),
                     type |-> PyStr(entry_type),
                     tags |-> PyList([i \in DOMAIN parsed_tags.value |->
                                        PyTag(parsed_tags.value[i])]),
                     created |-> PyDate(day),
                     status |-> PyStr(DRAFT),
                     author |-> author]),
                LAMBDA fm : IF IsOk(fm) THEN Ok(Entry(fm.value, entry_type, None))
                            ELSE Raised)))

(***************************************************************************)
(* Repository layout (repo.py).  A path is the sequence of its parts below *)
(* entries/; `files` maps the paths of the files that exist to their       *)
(* contents.                                                               *)
(***************************************************************************)
ENTRIES == <<"e","n","t","r","i","e","s">>
MD == <<".","m","d">>

\* the parts of the path relative to the repository root
RelPath(p) == <<ENTRIES>> \o p

\* Path.name and Path.parent.name
Name(p) == p[Len(p)]
ParentName(p) == IF Len(p) = 1 THEN ENTRIES ELSE p[Len(p) - 1]

EndsWith(s, suffix) ==
    Len(s) >= Len(suffix) /\ SubSeq(s, Len(s) - Len(suffix) + 1, Len(s)) = suffix

\* Path < Path: part by part
RECURSIVE PathLess(_, _)
PathLess(p, q) ==
    IF q = <<>> THEN FALSE
    ELSE IF p = <<>> THEN TRUE
    ELSE IF Head(p) = Head(q) THEN PathLess(Tail(p), Tail(q))
    ELSE StrLess(Head(p), Head(q))

\* sorted(paths)
RECURSIVE Sorted(_)
Sorted(S) ==
    IF S = {} THEN <<>>
    ELSE LET least == CHOOSE p \in S : \A q \in S \ {p} : PathLess(p, q)
         IN  <<least>> \o Sorted(S \ {least})

\* sorted(entries_dir.rglob("*.md"))
EntryFiles(fs) == Sorted({p \in DOMAIN fs : EndsWith(Name(p), MD)})

\* KnowledgeRepo.entry_path
entry_path(entry_id) == <<prefix(entry_id), entry_id \o MD>>

EntryNotFoundError(raw_id) == [raised |-> "EntryNotFoundError", entry_id |-> raw_id]

\* the loop of iter_entries with the first bad file ending it
RECURSIVE IterFrom_StopAtBad(_, _)
IterFrom_StopAtBad(fs, paths) ==
    IF paths = <<>> THEN <<>>
    ELSE Bind(parse_entry(Head(paths), fs[Head(paths)]), LAMBDA parsed :
            IF IsOk(parsed) THEN <<parsed.value>> \o IterFrom_StopAtBad(fs, Tail(paths))
            ELSE <<>>)

\* the loop of iter_entries: the entries yielded, in order
RECURSIVE IterFrom(_, _)
IterFrom(fs, paths) ==
    IF paths = <<>> THEN <<>>
    ELSE Bind(parse_entry(Head(paths), fs[Head(paths)]), LAMBDA parsed :
            (IF IsOk(parsed) THEN <<parsed.value>> ELSE <<>>) \o IterFrom(fs, Tail(paths)))

\* KnowledgeRepo.iter_entries
iter_entries(fs) == Bind(EntryFiles(fs), LAMBDA paths : IterFrom(fs, paths))

\* resolve_entry treating a file that fails to parse as a missing one
resolve_entry_SkipBad(fs, raw_id) ==
    LET entry_id == EntryId(raw_id)
    IN  IF ~IsOk(entry_id) THEN EntryNotFoundError(raw_id)
        ELSE LET path == entry_path(entry_id.value)
             IN  IF path \notin DOMAIN fs \/ ~IsOk(parse_entry(path, fs[path]))
                 THEN EntryNotFoundError(raw_id)
                 ELSE parse_entry(path, fs[path])

\* KnowledgeRepo.resolve_entry
resolve_entry(fs, raw_id) ==
    LET entry_id == EntryId(raw_id)
    IN  IF ~IsOk(entry_id) THEN EntryNotFoundError(raw_id)
        ELSE LET path == entry_path(entry_id.value)
             IN  IF path \notin DOMAIN fs THEN EntryNotFoundError(raw_id)
                 ELSE parse_entry(path, fs[path])

\* write_entry, as save_entry calls it: the tree with the file written
write_entry(fs, entry, path) == (path :> serialize_entry(entry)) @@ fs

(***************************************************************************)
(* The index (index.py)                                                    *)
(***************************************************************************)
\* index.setdefault(key, []).append(id_str)
setdefault_append(index, key, id_str) ==
    IF key \in DOMAIN index
    THEN [index EXCEPT ![key] = Append(@, id_str)]
    ELSE (key :> <<id_str>>) @@ index

\* for tag in fm.tags: tag_index.setdefault(tag.value, []).append(id_str)
RECURSIVE TagLoop(_, _, _)
TagLoop(tag_index, tags, id_str) ==
    IF tags = <<>> THEN tag_index
    ELSE Bind(setdefault_append(tag_index, Head(tags), id_str), LAMBDA next :
            TagLoop(next, Tail(tags), id_str))

\* str(entry.source_path.relative_to(repo.root)), as path parts
IndexEntry(entry) ==
    [id |-> entry.front_matter.id,
     path |-> IF IsNone(entry.source_path) THEN <<>>
              ELSE <<"entries">> \o entry.source_path.some,
     title |-> entry.front_matter.title,
     type |-> entry.front_matter.type,
     tags |-> entry.front_matter.tags,
     status |-> entry.front_matter.status,
     created |-> isoformat(entry.front_matter.created),
     updated |-> IF IsNone(entry.front_matter.updated) THEN None
                 ELSE Some(isoformat(entry.front_matter.updated.some))]

\* the body of `for entry in repo.iter_entries()`
IndexStep(acc, entry) ==
    [entries_list |-> Append(acc.entries_list, IndexEntry(entry)),
     tag_index |-> TagLoop(acc.tag_index, entry.front_matter.tags, entry.front_matter.id),
     type_index |-> setdefault_append(acc.type_index, entry.front_matter.type,
                                      entry.front_matter.id)]

RECURSIVE IndexLoop(_, _)
IndexLoop(acc, entries) ==
    IF entries = <<>> THEN acc
    ELSE Bind(IndexStep(acc, Head(entries)), LAMBDA next : IndexLoop(next, Tail(entries)))

\* build_index(repo); the `generated` timestamp is left out
build_index(fs) ==
    Bind(IndexLoop([entries_list |-> <<>>, tag_index |-> <<>>, type_index |-> <<>>],
                   iter_entries(fs)),
         LAMBDA acc : [entry_count |-> Len(acc.entries_list), entries |-> acc.entries_list,
                       tag_index |-> acc.tag_index, type_index |-> acc.type_index])

\* write_index(repo): .knowledge/ is made if absent, index.json is written
write_index(fs, d) ==
    [d EXCEPT !.knowledge_dir = TRUE, !.index = Some(build_index(fs))]

(***************************************************************************)
(* The text of an entry file and the filesystem steps of write_entry       *)
(***************************************************************************)
\* the keys of the YAML block, in the sorted order yaml.dump writes them
KeyOrder ==
    << <<"a","u","t","h","o","r">>, <<"c","r","e","a","t","e","d">>,
       <<"d","i","f","f","i","c","u","l","t","y">>, <<"i","d">>,
       <<"r","e","l","a","t","e","d">>, <<"s","o","u","r","c","e">>,
       <<"s","t","a","t","u","s">>, <<"t","a","g","s">>, <<"t","i","t","l","e">>,
       <<"t","y","p","e">>, <<"u","p","d","a","t","e","d">> >>

KeyNames ==
    <<"author", "created", "difficulty", "id", "related", "source", "status", "tags",
      "title", "type", "updated">>

ScalarText(node) ==
    IF node.quoted THEN <<"'">> \o node.text \o <<"'">> ELSE node.text

RECURSIVE ItemLines(_)
ItemLines(items) ==
    IF items = <<>> THEN <<>>
    ELSE <<"-", " ">> \o ScalarText(Head(items)) \o <<"\n">> \o ItemLines(Tail(items))

\* the lines of one key of the block; a nested mapping is written one pair
\* a line, in the order of its keys
RECURSIVE PairLines(_)
PairLines(pairs) ==
    IF pairs = {} THEN <<>>
    ELSE LET p == CHOOSE q \in pairs : \A r \in pairs : r[1] = q[1] \/ StrLess(q[1], r[1])
         IN  <<" ", " ">> \o p[1] \o <<":", " ">> \o ScalarText(p[2]) \o <<"\n">>
                \o PairLines(pairs \ {p})

KeyLines(key, node) ==
    IF Is(node, "items")
    THEN IF node.items = <<>> THEN key \o <<":", " ", "[", "]", "\n">>
         ELSE key \o <<":", "\n">> \o ItemLines(node.items)
    ELSE IF Is(node, "pairs") THEN key \o <<":", "\n">> \o PairLines(node.pairs)
    ELSE key \o <<":", " ">> \o ScalarText(node) \o <<"\n">>

RECURSIVE BlockLines(_, _)
BlockLines(meta, k) ==
    IF k > Len(KeyNames) THEN <<>>
    ELSE (IF KeyNames[k] \in DOMAIN meta THEN KeyLines(KeyOrder[k], meta[KeyNames[k]]) ELSE <<>>)
            \o BlockLines(meta, k + 1)

\* frontmatter.dumps(post) + "\n": the characters of the file
FileText(file) ==
    <<"-", "-", "-", "\n">> \o BlockLines(file.meta, 1)
        \o <<"-", "-", "-", "\n", "\n">> \o file.body \o <<"\n">>

\* a file seen as the bytes it holds
Bytes(text) == [bytes |-> text]

\* write(2) of text at offset 0 of a file that holds old
Overwrite(old, text) == text \o SubSeq(old, Len(text) + 1, Len(old))

NoCalls == [made |-> {}, last |-> 0, calls |-> <<>>]

\* a call of save_entry about to start: path = self.entry_path(id)
Call(entry) == [entry |-> entry, path |-> entry_path(entry.front_matter.id), pc |-> "mkdir"]

(***************************************************************************)
(* The root directory: KnowledgeRepo.init                                  *)
(***************************************************************************)
\* s in text
Contains(text, s) ==
    \E i \in 1..(Len(text) - Len(s) + 1) : SubSeq(text, i, i + Len(s) - 1) = s

\* the literal ".knowledge/index.json"
IndexRule ==
    <<".","k","n","o","w","l","e","d","g","e","/","i","n","d","e","x",
      ".","j","s","o","n">>

GITIGNORE_ADDITIONS == <<"#", " ", "L", "K", "R", "\n">> \o IndexRule \o <<"\n">>

\* _DEFAULT_CONFIG.format(name=name), _DEFAULT_README.format(name=name)
DEFAULT_CONFIG(name) == [template |-> "config", name |-> name]
DEFAULT_README(name) == [template |-> "readme", name |-> name]

EmptyDisk ==
    [entries_dir |-> FALSE, knowledge_dir |-> FALSE,
     config |-> None, readme |-> None, gitignore |-> None, index |-> None]

\* the .gitignore branch of init that always appends
gitignore_AlwaysAppend(existing) ==
    IF ~IsNone(existing)
    THEN Some(RStrip(existing.some) \o <<"\n">> \o GITIGNORE_ADDITIONS)
    ELSE Some(GITIGNORE_ADDITIONS)

\* the .gitignore branch of init
gitignore(existing) ==
    IF ~IsNone(existing)
    THEN IF ~Contains(existing.some, IndexRule)
         THEN Some(RStrip(existing.some) \o <<"\n">> \o GITIGNORE_ADDITIONS)
         ELSE existing
    ELSE Some(GITIGNORE_ADDITIONS)

\* init that writes the config whatever is there
init_Overwrite(d, name) ==
    [entries_dir |-> TRUE, knowledge_dir |-> TRUE,
     config |-> Some(DEFAULT_CONFIG(name)),
     readme |-> IF IsNone(d.readme) THEN Some(DEFAULT_README(name)) ELSE d.readme,
     gitignore |-> gitignore(d.gitignore),
     index |-> d.index]

\* KnowledgeRepo.init(path, name), on the root directory d
init(d, name) ==
    [entries_dir |-> TRUE, knowledge_dir |-> TRUE,
     config |-> IF IsNone(d.config) THEN Some(DEFAULT_CONFIG(name)) ELSE d.config,
     readme |-> IF IsNone(d.readme) THEN Some(DEFAULT_README(name)) ELSE d.readme,
     gitignore |-> gitignore(d.gitignore),
     index |-> d.index]

(***************************************************************************)
(* Validation (validate.py)                                                *)
(***************************************************************************)
ValidationIssue(level, file, message) == [level |-> level, file |-> file, message |-> message]

ValidationReport == [issues |-> <<>>, entries_checked |-> 0, errors |-> 0, warnings |-> 0]

is_clean(report) == report.errors = 0 /\ report.warnings = 0

add_error(report, file, message) ==
    [report EXCEPT !.issues = Append(@, ValidationIssue("error", file, message)),
                   !.errors = @ + 1]

\* add_warning that leaves the counter alone
add_warning_NoCount(report, file, message) ==
    [report EXCEPT !.issues = Append(@, ValidationIssue("warning", file, message))]

add_warning(report, file, message) ==
    [report EXCEPT !.issues = Append(@, ValidationIssue("warning", file, message)),
                   !.warnings = @ + 1]

SlugWords == 8
DraftDays == 30
StaleDays == 180

\* the characters re.sub(r'[^a-zA-Z0-9\s]', '', title) keeps
IsSlugChar(c) == IsLowerChar(c) \/ IsUpperChar(c) \/ IsDigit(c) \/ IsSpace(c)

\* str.split(): the runs of non-whitespace
RECURSIVE Split(_)
Split(s) ==
    LET t == LStrip(s)
    IN  IF t = <<>> THEN <<>>
        ELSE LET stops == {i \in DOMAIN t : IsSpace(t[i])}
                 k == IF stops = {} THEN Len(t) + 1
                      ELSE CHOOSE i \in stops : \A j \in stops : i <= j
             IN  <<SubSeq(t, 1, k - 1)>> \o Split(SubSeq(t, k, Len(t)))

\* expected_filename without the words[:8] truncation
expected_filename_NoTruncate(fm) ==
    LET words == Split(SelectSeq(fm.title, IsSlugChar))
        slug == JoinWith([i \in DOMAIN words |-> Lower(words[i])], <<"-">>)
    IN  IF slug # <<>> THEN fm.id \o <<"-">> \o slug \o MD ELSE fm.id \o MD

\* the filename validate_repo expects for a front matter
expected_filename(fm) ==
    LET words == Take(Split(SelectSeq(fm.title, IsSlugChar)), SlugWords)
        slug == JoinWith([i \in DOMAIN words |-> Lower(words[i])], <<"-">>)
    IN  IF slug # <<>> THEN fm.id \o <<"-">> \o slug \o MD ELSE fm.id \o MD

\* check 2: the file is named after its id and title
FilenameCheck(report, md_file, fm) ==
    IF Name(md_file) # expected_filename(fm)
    THEN add_error(report, RelPath(md_file), [filename |-> Name(md_file), id |-> fm.id])
    ELSE report

\* the directory check as an elif of the filename check
DirectoryCheck_Elif(report, md_file, fm) ==
    IF Name(md_file) = expected_filename(fm) /\ ParentName(md_file) # prefix(fm.id)
    THEN add_error(report, RelPath(md_file),
            [directory |-> ParentName(md_file), id_prefix |-> prefix(fm.id)])
    ELSE report

\* check 3: the file lies in the directory named after its id's prefix
DirectoryCheck(report, md_file, fm) ==
    IF ParentName(md_file) # prefix(fm.id)
    THEN add_error(report, RelPath(md_file),
            [directory |-> ParentName(md_file), id_prefix |-> prefix(fm.id)])
    ELSE report

\* one pass of the first loop: schema, file naming, directory structure
ScanStep(fs, md_file, acc) ==
    Bind(parse_entry(md_file, fs[md_file]), LAMBDA parsed :
        LET counted == [acc.report EXCEPT !.entries_checked = @ + 1]
        IN  IF ~IsOk(parsed)
            THEN [report |-> add_error(counted, RelPath(md_file), [reason |-> parsed.reason]),
                  entries |-> acc.entries]
            ELSE [report |-> DirectoryCheck(
                                FilenameCheck(counted, md_file, parsed.value.front_matter),
                                md_file, parsed.value.front_matter),
                  entries |-> Append(acc.entries, parsed.value)])

\* the first loop with break in place of continue
RECURSIVE ScanFiles_StopAtBad(_, _, _)
ScanFiles_StopAtBad(fs, paths, acc) ==
    IF paths = <<>> THEN acc
    ELSE Bind(ScanStep(fs, Head(paths), acc), LAMBDA next :
            IF Len(next.entries) = Len(acc.entries) THEN next
            ELSE ScanFiles_StopAtBad(fs, Tail(paths), next))

\* the first loop
RECURSIVE ScanFiles(_, _, _)
ScanFiles(fs, paths, acc) ==
    IF paths = <<>> THEN acc
    ELSE Bind(ScanStep(fs, Head(paths), acc), LAMBDA next : ScanFiles(fs, Tail(paths), next))

\* one pass of the second loop, remembering where an id was seen last
UniqueStep_LastSeen(entry, acc) ==
    LET id_str == entry.front_matter.id
        rel == RelPath(entry.source_path.some)
    IN  [report |-> IF id_str \in DOMAIN acc.seen_ids
                    THEN add_error(acc.report, rel,
                            [duplicate_id |-> id_str, also_in |-> acc.seen_ids[id_str]])
                    ELSE acc.report,
         seen_ids |-> (id_str :> rel) @@ acc.seen_ids]

\* one pass of the second loop; seen_ids maps an id to where it was first seen
UniqueStep(entry, acc) ==
    LET id_str == entry.front_matter.id
        rel == RelPath(entry.source_path.some)
    IN  IF id_str \in DOMAIN acc.seen_ids
        THEN [report |-> add_error(acc.report, rel,
                            [duplicate_id |-> id_str, also_in |-> acc.seen_ids[id_str]]),
              seen_ids |-> acc.seen_ids]
        ELSE [report |-> acc.report, seen_ids |-> (id_str :> rel) @@ acc.seen_ids]

\* the second loop: duplicate IDs
RECURSIVE UniqueLoop(_, _)
UniqueLoop(entries, acc) ==
    IF entries = <<>> THEN acc
    ELSE Bind(UniqueStep(Head(entries), acc), LAMBDA next : UniqueLoop(Tail(entries), next))

\* the inner loop, stopping at the first missing reference
RECURSIVE RefsOf_FirstOnly(_, _, _, _)
RefsOf_FirstOnly(refs, rel, seen_ids, report) ==
    IF refs = <<>> THEN report
    ELSE IF Head(refs) \notin DOMAIN seen_ids
        THEN add_error(report, rel, [related_not_found |-> Head(refs)])
    ELSE RefsOf_FirstOnly(Tail(refs), rel, seen_ids, report)

\* the third loop's inner loop: the related IDs of one entry
RECURSIVE RefsOf(_, _, _, _)
RefsOf(refs, rel, seen_ids, report) ==
    IF refs = <<>> THEN report
    ELSE RefsOf(Tail(refs), rel, seen_ids,
            IF Head(refs) \notin DOMAIN seen_ids
            THEN add_error(report, rel, [related_not_found |-> Head(refs)])
            ELSE report)

RECURSIVE ReferenceLoop(_, _, _)
ReferenceLoop(entries, seen_ids, report) ==
    IF entries = <<>> THEN report
    ELSE
    LET fm == Head(entries).front_matter
    IN  ReferenceLoop(Tail(entries), seen_ids,
            IF ~IsNone(fm.related) /\ fm.related.some # <<>>
            THEN RefsOf(fm.related.some, RelPath(Head(entries).source_path.some), seen_ids, report)
            ELSE report)

\* the fourth loop: old drafts, entries never updated
\* the staleness loop with the limits included
RECURSIVE StaleLoop_Inclusive(_, _, _)
StaleLoop_Inclusive(entries, day, report) ==
    IF entries = <<>> THEN report
    ELSE
    LET fm == Head(entries).front_matter
        rel == RelPath(Head(entries).source_path.some)
        age == DaysFromCivil(day) - DaysFromCivil(fm.created)
        drafts ==
            IF ~IsNone(fm.status) /\ fm.status.some = DRAFT /\ age >= DraftDays
            THEN add_warning(report, rel, [draft_days |-> age])
            ELSE report
        stale ==
            IF IsNone(fm.updated) /\ age >= StaleDays
            THEN add_warning(drafts, rel, [no_update_days |-> age])
            ELSE drafts
    IN  StaleLoop_Inclusive(Tail(entries), day, stale)

\* validate_repo, run on the day given
RECURSIVE StaleLoop(_, _, _)
StaleLoop(entries, day, report) ==
    IF entries = <<>> THEN report
    ELSE
    LET fm == Head(entries).front_matter
        rel == RelPath(Head(entries).source_path.some)
        age == DaysFromCivil(day) - DaysFromCivil(fm.created)
        drafts ==
            IF ~IsNone(fm.status) /\ fm.status.some = DRAFT /\ age > DraftDays
            THEN add_warning(report, rel, [draft_days |-> age])
            ELSE report
        stale ==
            IF IsNone(fm.updated) /\ age > StaleDays
            THEN add_warning(drafts, rel, [no_update_days |-> age])
            ELSE drafts
    IN  StaleLoop(Tail(entries), day, stale)

\* validate_repo, run on the day given
validate_repo(fs, day) ==
    Bind(EntryFiles(fs), LAMBDA entry_files :
    Bind(ScanFiles(fs, entry_files, [report |-> ValidationReport, entries |-> <<>>]),
         LAMBDA scanned :
    Bind(UniqueLoop(scanned.entries,
                    [report |-> scanned.report, seen_ids |-> [i \in {} |-> <<>>]]),
         LAMBDA unique :
    Bind(ReferenceLoop(scanned.entries, unique.seen_ids, unique.report),
         LAMBDA referenced : StaleLoop(scanned.entries, day, referenced)))))

\* KnowledgeRepo.save_entry: the tree afterwards and the path returned
save_entry(fs, entry) ==
    LET path == entry_path(entry.front_matter.id)
    IN  [files |-> write_entry(fs, entry, path), path |-> path]

(***************************************************************************)
(* The inputs the operations are run on                                    *)
(***************************************************************************)
MaxFiles == 3

Days == <<Date(2025, 3, 1), Date(2025, 9, 1)>>

Draws == {<<0, 0, 0, 0, 0>>, <<0, 0, 0, 0, 1>>, <<0, 0, 0, 0, 36>>}

NewTypes == {NOTE, GUIDE}
NewTitles == {<<"A", " ", "b">>, <<"!", "!">>, <<" ">>}
NewTagLists == {<<>>, <<<<"X">>, <<" ">>>>, <<<<"X">>, <<"y">>>>}
NewAuthors == {PyNone, PyStr(<<"a", "l">>)}

AB == <<"a", "b">>
ZZ == <<"z", "z">>
AB1 == <<"a", "b", "1">>
AB2 == <<"a", "b", "2">>
ZZ9 == <<"z", "z", "9">>
TitleAB == <<"A", " ", "b">>
TitleBang == <<"!", "!">>
TitleNine ==
    <<"a", " ", "b", " ", "c", " ", "d", "-", " ", " ", "e", " ",
      "F", " ", "g", " ", "h", " ", "i">>
DayText == <<"2", "0", "2", "5", "-", "0", "1", "-", "1", "5">>

\* an entry file as a user would write it by hand
Doc(id, title, related) ==
    EntryFile(
        (IF related = <<>> THEN [k \in {} |-> Plain(<<>>)]
         ELSE "related" :> YSeq([i \in DOMAIN related |-> Plain(related[i])]))
        @@ [id |-> Quoted(id), title |-> Quoted(title), type |-> Plain(NOTE),
            tags |-> YSeq(<<Plain(<<"x">>)>>), created |-> Plain(DayText),
            status |-> Plain(DRAFT)],
        <<"t", "e", "x", "t">>)

HandWritten ==
    { Doc(AB1, TitleAB, <<AB1, AB2, ZZ9>>),
      Doc(AB2, TitleBang, <<AB1>>),
      Doc(AB1, TitleNine, <<>>),
      EntryFile([title |-> Plain(<<"O", "n", "l", "y">>)], <<"t", "e", "x", "t">>),
      Unreadable }

HandPaths ==
    { <<AB, AB1 \o <<"-", "a", "-", "b">> \o MD>>,
      <<AB, AB1 \o MD>>,
      <<AB, AB2 \o MD>>,
      <<ZZ, AB1 \o <<"-", "a", "-", "b">> \o MD>>,
      <<AB, AB1 \o <<"-","a","-","b","-","c","-","d","-","e","-","f","-","g","-","h">> \o MD>> }

\* entry files of several types and tag lists
DocWith(id, title, type, tags) ==
    EntryFile(
        [id |-> Quoted(id), title |-> Quoted(title), type |-> Plain(type),
         tags |-> YSeq([i \in DOMAIN tags |-> Plain(tags[i])]), created |-> Plain(DayText)],
        <<"t", "e", "x", "t">>)

TaggedDocs ==
    { DocWith(AB1, TitleAB, NOTE, <<<<"x">>, <<"y">>>>),
      DocWith(AB2, TitleBang, GUIDE, <<<<"y">>>>),
      DocWith(AB1, TitleAB, NOTE, <<>>),
      DocWith(ZZ9, TitleAB, GUIDE, <<<<"Y">>, <<"y">>>>),
      EntryFile([title |-> Plain(<<"O", "n", "l", "y">>)], <<"t", "e", "x", "t">>),
      Unreadable }

\* paths at several depths below entries/, one of them no .md file
DeepPaths ==
    { <<AB, AB1 \o MD>>,
      <<AB, AB2 \o MD>>,
      <<AB1 \o <<"-", "a", "-", "b">> \o MD>>,
      <<AB, ZZ, AB2 \o MD>>,
      <<AB, <<"n", "o", "t", "e", "s", ".", "t", "x", "t">>>> }

\* a front matter as EntryFrontMatter would hold it
FrontMatter(id, title, related, updated) ==
    [id |-> id, title |-> title, type |-> NOTE, tags |-> <<<<"x">>>>,
     created |-> Days[1], updated |-> updated, status |-> None, difficulty |-> None,
     author |-> None, related |-> related, source |-> None]

SaveEntries ==
    { Entry(FrontMatter(id, title, related, None), <<"t", "e", "x", "t">>, None) :
        id \in {AB1, AB2},
        title \in {TitleAB, TitleBang},
        related \in {None, Some(<<>>), Some(<<AB1>>)} }

ResolveIds == {AB1, <<" ", "A", "B", "2">>, ZZ9, <<"a", "-">>}

\* creation dates 30, 31, 180 and 181 days before Days[1], and the day after it
CreatedDays ==
    {Date(2025, 1, 30), Date(2025, 1, 29), Date(2024, 9, 2), Date(2024, 9, 1),
     Date(2025, 3, 2)}

StaleDoc(created, status, updated) ==
    EntryFile(
        [id |-> Quoted(AB1), title |-> Quoted(TitleAB), type |-> Plain(NOTE),
         tags |-> YSeq(<<>>), created |-> Plain(isoformat(created))]
          @@ (IF IsNone(status) THEN <<>> ELSE [status |-> Plain(status.some)])
          @@ (IF IsNone(updated) THEN <<>> ELSE [updated |-> Plain(isoformat(updated.some))]),
        <<"t", "e", "x", "t">>)

StaleDocs ==
    { StaleDoc(created, status, updated) :
        created \in CreatedDays,
        status \in {None, Some(DRAFT), Some(REVIEWED)},
        updated \in {None, Some(Date(2025, 2, 1))} }

StalePaths == { <<AB, AB1 \o MD>>, <<AB, AB2 \o MD>> }

\* files of a small repository: an old draft, a fresh entry, a file that
\* does not parse
ReportDocs ==
    { StaleDoc(Date(2024, 9, 1), Some(DRAFT), None),
      StaleDoc(Date(2025, 3, 2), None, Some(Date(2025, 3, 2))),
      Unreadable }

ReportPaths == { <<AB, AB1 \o <<"-", "a", "-", "b">> \o MD>>, <<AB, AB2 \o MD>> }

\* the most issues a caller adds to a report
MaxIssues == 3

\* names given to init
RepoNames == <<"kb", "wiki">>

UserText == [text |-> "mine"]

\* what a .gitignore holds before the first init
PriorGitignores ==
    { None,
      Some(<<>>),
      Some(<<"a", "\n">>),
      Some(<<"a", "\n", "b">>),
      Some(<<"a", "\n", "\n", "b", "\n", "\n">>),
      Some(<<"a", " ", "\n">>),
      Some(IndexRule \o <<"\n">>),
      Some(<<"a", "\n">> \o IndexRule),
      Some(<<"!">> \o IndexRule \o <<"\n">>),
      Some(IndexRule \o <<".", "b", "a", "k", "\n">>),
      Some(GITIGNORE_ADDITIONS) }

\* root directories init may find
PriorDisks ==
    { [entries_dir |-> e, knowledge_dir |-> k, config |-> c, readme |-> r, gitignore |-> g,
       index |-> None] :
        e \in BOOLEAN, k \in {TRUE}, c \in {None, Some(DEFAULT_CONFIG(RepoNames[2])), Some(UserText)},
        r \in {None, Some(UserText)}, g \in PriorGitignores }
    \cup
    { [entries_dir |-> e, knowledge_dir |-> FALSE, config |-> None, readme |-> r, gitignore |-> g,
       index |-> None] :
        e \in BOOLEAN, r \in {None, Some(UserText)}, g \in PriorGitignores }

PriorFiles ==
    { [p \in {} |-> Unreadable],
      (<<AB, AB1 \o MD>> :> DocWith(AB1, TitleAB, NOTE, <<>>)) }

(***************************************************************************)
(* The repository's operations                                             *)
(***************************************************************************)
Init ==
    /\ files = [p \in {} |-> Unreadable]
    /\ today = Days[1]
    /\ ret = [op |-> "none"]
    /\ lastSaved = [i \in {} |-> None]
    /\ input = None
    /\ output = None
    /\ disk = init(EmptyDisk, RepoNames[1])
    /\ procs = NoCalls

Room(fs, path) == path \in DOMAIN fs \/ Cardinality(DOMAIN fs) < MaxFiles

\* `new`: create_entry, then save_entry
New(entry_type, title, tags, author, draw) ==
    \E created \in {create_entry(entry_type, title, tags, author, draw, today)} :
        /\ IF IsOk(created)
           THEN \E saved \in {save_entry(files, created.value)} :
                    /\ Room(files, saved.path)
                    /\ files' = saved.files
                    /\ ret' = [op |-> "new", path |-> saved.path]
                    /\ lastSaved' = (created.value.front_matter.id :> created.value.front_matter)
                                        @@ lastSaved
           ELSE /\ ret' = [op |-> "new", raised |-> created.raised]
                /\ UNCHANGED <<files, lastSaved>>
        /\ UNCHANGED <<today, input, output, disk, procs>>

\* save_entry of an entry the caller holds
Save(entry) ==
    \E saved \in {save_entry(files, entry)} :
        /\ Room(files, saved.path)
        /\ files' = saved.files
        /\ ret' = [op |-> "save", path |-> saved.path]
        /\ lastSaved' = (entry.front_matter.id :> entry.front_matter) @@ lastSaved
        /\ UNCHANGED <<today, input, output, disk, procs>>

\* a file written below entries/ by other means (an editor, a checkout)
Write(path, content) ==
    /\ Room(files, path)
    /\ files' = (path :> content) @@ files
    /\ ret' = [op |-> "write"]
    /\ UNCHANGED <<today, lastSaved, input, output, disk, procs>>

Validate ==
    /\ ret' = [op |-> "validate", report |-> validate_repo(files, today)]
    /\ UNCHANGED <<files, today, lastSaved, input, output, disk, procs>>

Resolve(raw_id) ==
    /\ ret' = [op |-> "resolve", raw_id |-> raw_id, result |-> resolve_entry(files, raw_id)]
    /\ UNCHANGED <<files, today, lastSaved, input, output, disk, procs>>

\* the calendar moves on
Tick ==
    /\ \E i \in DOMAIN Days : Days[i] = today /\ i < Len(Days) /\ today' = Days[i + 1]
    /\ ret' = [op |-> "none"]
    /\ UNCHANGED <<files, lastSaved, input, output, disk, procs>>

NewAny ==
    \E entry_type \in NewTypes, title \in NewTitles, tags \in NewTagLists,
       author \in NewAuthors, draw \in Draws :
        New(entry_type, title, tags, author, draw)

SaveAny == \E entry \in SaveEntries : Save(entry)

WriteAny == \E path \in HandPaths, content \in HandWritten : Write(path, content)

WriteDeepAny == \E path \in DeepPaths, content \in TaggedDocs : Write(path, content)

\* list(repo.iter_entries())
Iterate ==
    /\ ret' = [op |-> "iter", entries |-> iter_entries(files)]
    /\ UNCHANGED <<files, today, lastSaved, input, output, disk, procs>>

WriteStaleAny == \E path \in StalePaths, content \in StaleDocs : Write(path, content)

WriteReportAny == \E path \in ReportPaths, content \in ReportDocs : Write(path, content)

\* ValidationReport()
NewReport ==
    /\ ret' = [op |-> "report", report |-> ValidationReport]
    /\ UNCHANGED <<files, today, lastSaved, input, output, disk, procs>>

\* report.add_error(file, message), on the report last returned
AddError ==
    /\ "report" \in DOMAIN ret
    /\ Len(ret.report.issues) < MaxIssues
    /\ ret' = [op |-> "report", report |-> add_error(ret.report, <<"f">>, [text |-> "e"])]
    /\ UNCHANGED <<files, today, lastSaved, input, output, disk, procs>>

\* report.add_warning(file, message), on the report last returned
AddWarning ==
    /\ "report" \in DOMAIN ret
    /\ Len(ret.report.issues) < MaxIssues
    /\ ret' = [op |-> "report", report |-> add_warning(ret.report, <<"f">>, [text |-> "w"])]
    /\ UNCHANGED <<files, today, lastSaved, input, output, disk, procs>>

\* build_index(repo)
BuildIndex ==
    /\ ret' = [op |-> "index", index |-> build_index(files)]
    /\ UNCHANGED <<files, today, lastSaved, input, output, disk, procs>>

ResolveAny == \E raw_id \in ResolveIds : Resolve(raw_id)

Next == NewAny \/ SaveAny \/ WriteAny \/ Validate \/ ResolveAny \/ Tick

Spec == Init /\ [][Next]_vars

\* a repository filled by `new` alone
NextNew == NewAny \/ Validate \/ Tick

SpecNew == Init /\ [][NextNew]_vars

\* a repository written by save_entry alone
NextSave == SaveAny \/ ResolveAny

SpecSave == Init /\ [][NextSave]_vars

\* a repository edited by hand and validated
NextValidate == WriteAny \/ Validate

SpecValidate == Init /\ [][NextValidate]_vars

\* a repository edited by hand and read one entry at a time
NextResolve == WriteAny \/ ResolveAny

SpecResolve == Init /\ [][NextResolve]_vars

\* a repository edited by hand and enumerated
NextIter == WriteDeepAny \/ Iterate

SpecIter == Init /\ [][NextIter]_vars

\* a repository edited by hand and indexed
NextIndex == WriteDeepAny \/ BuildIndex

SpecIndex == Init /\ [][NextIndex]_vars

\* entries of several ages, validated on several days
NextStale == WriteStaleAny \/ Validate \/ Tick

SpecStale == Init /\ [][NextStale]_vars

\* reports made by validate_repo or from nothing, and added to by the caller
NextReport == WriteReportAny \/ Validate \/ NewReport \/ AddError \/ AddWarning

SpecReport == Init /\ [][NextReport]_vars

\* a directory of any earlier content, initialised again and again
InitAnyDisk ==
    /\ disk \in PriorDisks
    /\ procs = NoCalls
    /\ files \in PriorFiles
    /\ (files # [p \in {} |-> Unreadable] => disk.entries_dir)
    /\ today = Days[1]
    /\ ret = [op |-> "none"]
    /\ lastSaved = [i \in {} |-> None]
    /\ input = None
    /\ output = None

\* KnowledgeRepo.init(path, name)
InitRepo(name) ==
    /\ disk' = init(disk, name)
    /\ ret' = [op |-> "init", name |-> name]
    /\ UNCHANGED <<files, today, lastSaved, input, output, procs>>

InitRepoAny == \E i \in DOMAIN RepoNames : InitRepo(RepoNames[i])

SpecInit == InitAnyDisk /\ [][InitRepoAny]_vars

(***************************************************************************)
(* The constructors and conversions, each run once on an input drawn from  *)
(* a bounded set; the repository stays as Init leaves it.                  *)
(***************************************************************************)
MaxShort == 2
MaxPad == 8

IdChars == {"a", "Z", "7", " ", "-", "\n"}

ShortStrings == UNION {[1..n -> IdChars] : n \in 0..MaxShort}

\* raw strings given to EntryId: short strings, alone or lengthened by letters
RawIds ==
    {Repeat("a", k) \o s : k \in 0..MaxPad, s \in ShortStrings}
        \cup {s \o Repeat("a", k) : k \in 0..MaxPad, s \in ShortStrings}

Idle ==
    /\ files = [p \in {} |-> Unreadable]
    /\ today = Days[1]
    /\ ret = [op |-> "none"]
    /\ lastSaved = [i \in {} |-> None]
    /\ output = None
    /\ disk = init(EmptyDisk, RepoNames[1])
    /\ procs = NoCalls

InitEntryId == Idle /\ input \in RawIds

\* EntryId(raw)
ConstructEntryId ==
    /\ output = None
    /\ output' = EntryId(input)
    /\ UNCHANGED <<files, today, ret, lastSaved, input, disk, procs>>

SpecEntryId == InitEntryId /\ [][ConstructEntryId]_vars

\* entry_id.prefix, read from a constructed id
ReadPrefix ==
    /\ IsOk(output) /\ ~Is(output, "prefix")
    /\ output' = [value |-> output.value, prefix |-> prefix(output.value)]
    /\ UNCHANGED <<files, today, ret, lastSaved, input, disk, procs>>

NextPrefix == ConstructEntryId \/ ReadPrefix

SpecPrefix == InitEntryId /\ [][NextPrefix]_vars

\* what secrets.token_bytes(5) may return: 0, 1, the numbers around 36 and its
\* powers, and the largest
TokenBytes ==
    { <<0, 0, 0, a, b>> : a \in {0, 5}, b \in {0, 1, 16, 35, 36, 37} }
        \cup { <<0, 0, 0, 0, 255>>, <<0, 0, 25, 160, 255>>, <<0, 0, 25, 161, 0>>,
               <<1, 0, 0, 0, 0>>, <<255, 0, 0, 0, 0>>, <<255, 255, 255, 255, 255>> }

\* two calls of generate_id, each with its own random draw
InitGenerate == Idle /\ input \in TokenBytes \X TokenBytes

\* generate_id(), first call
GenerateFirst ==
    /\ output = None
    /\ output' = [ids |-> <<generate_id(input[1])>>]
    /\ UNCHANGED <<files, today, ret, lastSaved, input, disk, procs>>

\* generate_id(), second call
GenerateSecond ==
    /\ Is(output, "ids") /\ Len(output.ids) = 1
    /\ output' = [ids |-> Append(output.ids, generate_id(input[2]))]
    /\ UNCHANGED <<files, today, ret, lastSaved, input, disk, procs>>

NextGenerate == GenerateFirst \/ GenerateSecond

SpecGenerate == InitGenerate /\ [][NextGenerate]_vars

\* the most bytes of an integer given to encode_base36
MaxBytes == 3

Magnitudes == UNION {[1..n -> {0, 1, 35, 36, 255}] : n \in 0..MaxBytes}

Base36Ints ==
    {BigInt(1, mag) : mag \in Magnitudes} \cup {BigInt(-1, mag) : mag \in {m \in Magnitudes : ~IsZero(m)}}

InitBase36 == Idle /\ input \in Base36Ints

\* encode_base36(n)
Encode ==
    /\ output = None
    /\ output' = [encoded |-> encode_base36(input)]
    /\ UNCHANGED <<files, today, ret, lastSaved, input, disk, procs>>

\* decode_base36(s), of the text encode_base36 returned
Decode ==
    /\ output # None /\ IsOk(output.encoded) /\ ~Is(output, "decoded")
    /\ output' = [encoded |-> output.encoded, decoded |-> decode_base36(output.encoded.value)]
    /\ UNCHANGED <<files, today, ret, lastSaved, input, disk, procs>>

NextBase36 == Encode \/ Decode

SpecBase36 == InitBase36 /\ [][NextBase36]_vars

(***************************************************************************)
(* Two processes that each run save_entry, one filesystem step at a time   *)
(***************************************************************************)
\* the entries the two processes save: one id, different contents
ConcurrentEntries == {e \in SaveEntries : e.front_matter.id = AB1}

InitConcurrent ==
    /\ files = [p \in {} |-> Unreadable]
    /\ today = Days[1]
    /\ ret = [op |-> "none"]
    /\ lastSaved = [i \in {} |-> None]
    /\ input = None
    /\ output = None
    /\ disk = init(EmptyDisk, RepoNames[1])
    /\ \E e1, e2 \in ConcurrentEntries :
          /\ e1 # e2
          /\ procs = [made |-> {}, last |-> 0, calls |-> <<Call(e1), Call(e2)>>]

\* path.parent.mkdir(parents=True, exist_ok=True)
Mkdir(p) ==
    /\ procs.calls[p].pc = "mkdir"
    /\ procs' = [procs EXCEPT !.made = @ \cup {<<procs.calls[p].path[1]>>},
                              !.calls[p].pc = "open"]
    /\ UNCHANGED <<files, today, ret, lastSaved, input, output, disk>>

\* path.write_text(...): open(path, "w") creates or truncates the file
Open(p) ==
    /\ procs.calls[p].pc = "open"
    /\ IF <<procs.calls[p].path[1]>> \in procs.made
       THEN /\ files' = (procs.calls[p].path :> Bytes(<<>>)) @@ files
            /\ procs' = [procs EXCEPT !.calls[p].pc = "write"]
       ELSE /\ procs' = [procs EXCEPT !.calls[p].pc = "raised"]
            /\ UNCHANGED files
    /\ UNCHANGED <<today, ret, lastSaved, input, output, disk>>

\* path.write_text(...): the text is written at the start of the file and
\* the file is closed
WriteText(p) ==
    /\ procs.calls[p].pc = "write"
    /\ files' = [files EXCEPT ![procs.calls[p].path] =
                    Bytes(Overwrite(@.bytes, FileText(serialize_entry(procs.calls[p].entry))))]
    /\ procs' = [procs EXCEPT !.last = p, !.calls[p].pc = "done"]
    /\ UNCHANGED <<today, ret, lastSaved, input, output, disk>>

NextConcurrent == \E p \in DOMAIN procs.calls : Mkdir(p) \/ Open(p) \/ WriteText(p)

SpecConcurrent == InitConcurrent /\ [][NextConcurrent]_vars

(***************************************************************************)
(* KnowledgeRepo.discover, one pass of its loop at a time.  The input is   *)
(* the chain of directories from the resolved start (first) to the         *)
(* filesystem root (last), each given by what its .knowledge/config.yaml   *)
(* is: absent, a regular file or a directory.                              *)
(***************************************************************************)
MaxDepth == 4

MarkerKinds == {"absent", "file", "dir"}

Chains == UNION {[1..n -> MarkerKinds] : n \in 1..MaxDepth}

\* Path.exists()
is_file_Exists(kind) == kind # "absent"

\* Path.is_file()
is_file(kind) == kind = "file"

InitDiscover == Idle /\ input \in Chains

\* current = (start or Path.cwd()).resolve()
DiscoverStart ==
    /\ output = None
    /\ output' = [current |-> 1]
    /\ UNCHANGED <<files, today, ret, lastSaved, input, disk, procs>>

\* one pass of `while True`
DiscoverLoop ==
    /\ Is(output, "current")
    /\ output' = IF is_file(input[output.current]) THEN [returned |-> output.current]
                 ELSE IF output.current = Len(input) THEN [raised |-> "RepoNotFoundError"]
                 ELSE [current |-> output.current + 1]
    /\ UNCHANGED <<files, today, ret, lastSaved, input, disk, procs>>

NextDiscover == DiscoverStart \/ DiscoverLoop

SpecDiscover == InitDiscover /\ [][NextDiscover]_vars /\ WF_vars(NextDiscover)

(***************************************************************************)
(* A directory that is initialised, worked on and discovered from below    *)
(***************************************************************************)
\* a path that is a directory
Directory == [directory |-> TRUE]

\* root directories before init: config.yaml absent, a file or a directory
DiscoverableDisks ==
    { [EmptyDisk EXCEPT !.entries_dir = e, !.knowledge_dir = TRUE, !.config = c] :
        e \in BOOLEAN,
        c \in {None, Some(DEFAULT_CONFIG(RepoNames[2])), Some(UserText), Some(Directory)} }
    \cup { [EmptyDisk EXCEPT !.entries_dir = e] : e \in BOOLEAN }

DiscoverableEntries ==
    {e \in SaveEntries : e.front_matter.title = TitleBang /\ e.front_matter.related = None}

InitDiscoverable ==
    /\ disk \in DiscoverableDisks
    /\ procs = NoCalls
    /\ files = [p \in {} |-> Unreadable]
    /\ today = Days[1]
    /\ ret = [op |-> "none"]
    /\ lastSaved = [i \in {} |-> None]
    /\ input = None
    /\ output = None

\* the caller holds the repository that init returned
HasRepo == ret.op # "none"

\* what Path.is_file() sees at <root>/.knowledge/config.yaml
MarkerOf(d) ==
    IF ~d.knowledge_dir \/ IsNone(d.config) THEN "absent"
    ELSE IF d.config.some = Directory THEN "dir"
    ELSE "file"

\* the directories below the root that exist: entries/ and the shards
DepthsBelow(fs, d) ==
    {0} \cup (IF d.entries_dir THEN {1} ELSE {})
        \cup (IF DOMAIN fs # {} THEN {2} ELSE {})

\* the chain from a directory `depth` levels below the root up to the
\* filesystem root; the directories below the root hold no marker
ChainFrom(d, depth, above) ==
    [i \in 1..depth |-> "absent"] \o <<MarkerOf(d)>> \o <<above>>

SaveSome == HasRepo /\ \E entry \in DiscoverableEntries : Save(entry)

\* write_index(repo)
WriteIndex ==
    /\ HasRepo
    /\ disk' = write_index(files, disk)
    /\ ret' = [op |-> "index", index |-> build_index(files)]
    /\ UNCHANGED <<files, today, lastSaved, input, output, procs>>

ValidateRepo == HasRepo /\ Validate

\* KnowledgeRepo.discover(start), up to the loop: start resolves to a
\* directory of the repository; its ancestors do not change after init
DiscoverFrom(depth, above) ==
    /\ HasRepo
    /\ ~Is(output, "current")
    /\ depth \in DepthsBelow(files, disk)
    /\ input' = ChainFrom(disk, depth, above)
    /\ output' = [current |-> 1]
    /\ UNCHANGED <<files, today, ret, lastSaved, disk, procs>>

DiscoverFromAny == \E depth \in 0..2, above \in {"absent", "file"} : DiscoverFrom(depth, above)

NextDiscoverable ==
    InitRepoAny \/ SaveSome \/ WriteIndex \/ ValidateRepo \/ DiscoverFromAny \/ DiscoverLoop

SpecDiscoverable == InitDiscoverable /\ [][NextDiscoverable]_vars

\* a key left out of a raw mapping
Absent == [absent |-> TRUE]

FieldNames ==
    {"id", "title", "type", "tags", "created", "updated", "status",
     "difficulty", "author", "related", "source"}

\* the mapping with the keys whose value is not Absent
Mapping(vals) == [k \in {f \in FieldNames : vals[f] # Absent} |-> vals[k]]

TextSrc == <<"s", "r", "c">>
Date1 == Date(2025, 1, 15)
Date2 == Date(2025, 2, 1)

\* values a YAML block can give each key, good and bad
RawValues ==
    [id |-> {PyStr(AB1), PyStr(<<" ", "A", "B", "2">>), PyInt(12), PyStr(<<"a", "-">>),
             PyNone, Absent},
     title |-> {PyStr(TitleAB), PyStr(<<" ">>), PyInt(7), PyNone, Absent},
     type |-> {PyStr(NOTE), PyStr(Q_AND_A), PyStr(TextSrc), PyNone, Absent},
     tags |-> {PyList(<<>>), PyList(<<PyStr(<<"X">>)>>), PyList(<<PyStr(<<" ">>)>>),
               PyList(<<PyNone>>), PyStr(<<"x">>), PyNone, Absent},
     created |-> {PyStr(DayText), PyDate(Date1), PyDateTime(Date1, 3600),
                  PyStr(<<"2","0","2","5","-","0","2","-","3","0">>), PyNone, Absent},
     updated |-> {PyDate(Date2), PyStr(<<"x">>), PyNone, Absent},
     status |-> {PyStr(REVIEWED), PyStr(TextSrc), PyNone, Absent},
     difficulty |-> {PyStr(TextSrc), PyInt(1), PyNone, Absent},
     author |-> {PyStr(TextSrc), PyNone, Absent},
     related |-> {PyList(<<>>), PyList(<<PyStr(AB2)>>), PyList(<<PyNone>>),
                  PyList(<<PyStr(<<"a", "-">>)>>), PyStr(AB2), PyNone, Absent},
     source |-> {PyDict({<<TextSrc, PyStr(TextSrc)>>}), PyDict({<<TextSrc, PyInt(1)>>}),
                 PyStr(TextSrc), PyNone, Absent}]

\* a mapping every field of which is valid
BaseValues ==
    [id |-> PyStr(AB1), title |-> PyStr(TitleAB), type |-> PyStr(NOTE),
     tags |-> PyList(<<PyStr(<<"X">>)>>), created |-> PyStr(DayText),
     updated |-> Absent, status |-> Absent, difficulty |-> Absent, author |-> Absent,
     related |-> Absent, source |-> Absent]

\* raw mappings: the valid one with up to two keys given another value
RawMappings ==
    {Mapping([BaseValues EXCEPT ![k1] = v1, ![k2] = v2]) :
        <<k1, v1, k2, v2>> \in
            UNION {UNION {{k1} \X RawValues[k1] \X {k2} \X RawValues[k2] : k2 \in FieldNames}
                     : k1 \in FieldNames}}

InitFrontMatter == Idle /\ input \in RawMappings

\* EntryFrontMatter(**raw)
ConstructFrontMatter ==
    /\ output = None
    /\ output' = EntryFrontMatter(input)
    /\ UNCHANGED <<files, today, ret, lastSaved, input, disk, procs>>

SpecFrontMatter == InitFrontMatter /\ [][ConstructFrontMatter]_vars

TitleNull == <<"n", "u", "l", "l">>
TitleDigits == <<"1", "2">>
TitlePadded == <<" ", "x", ":">>

\* field values of valid entries, every optional field set and unset
ValidValues ==
    [id |-> {PyStr(AB1), PyStr(<<"1", "2">>)},
     title |-> {PyStr(TitleAB), PyStr(TitleNull), PyStr(TitleDigits), PyStr(TitlePadded)},
     type |-> {PyStr(NOTE), PyStr(Q_AND_A)},
     tags |-> {PyList(<<>>), PyList(<<PyStr(<<"x">>), PyStr(<<"n", "o">>)>>)},
     created |-> {PyDate(Date1)},
     updated |-> {PyDate(Date2), Absent},
     status |-> {PyStr(REVIEWED), Absent},
     difficulty |-> {PyStr(TitleDigits), Absent},
     author |-> {PyStr(TextSrc), Absent},
     related |-> {PyList(<<>>), PyList(<<PyStr(AB2), PyStr(<<"7">>)>>), Absent},
     source |-> {PyDict({<<TextSrc, PyStr(TitleDigits)>>}), Absent}]

\* the entries EntryFrontMatter makes of them
ValidEntries ==
    {Entry(EntryFrontMatter(Mapping(vals)).value, <<"t", "e", "x", "t">>, None) :
        vals \in {[id |-> a, title |-> b, type |-> c, tags |-> d, created |-> e,
                   updated |-> f, status |-> g, difficulty |-> h, author |-> i,
                   related |-> j, source |-> k] :
                    a \in ValidValues.id, b \in ValidValues.title, c \in ValidValues.type,
                    d \in ValidValues.tags, e \in ValidValues.created,
                    f \in ValidValues.updated, g \in ValidValues.status,
                    h \in ValidValues.difficulty, i \in ValidValues.author,
                    j \in ValidValues.related, k \in ValidValues.source}}

InitRoundTrip == Idle /\ input \in ValidEntries

\* parse_entry of the file serialize_entry writes
RoundTrip ==
    /\ output = None
    /\ output' = parse_entry(<<AB, AB1 \o MD>>, serialize_entry(input))
    /\ UNCHANGED <<files, today, ret, lastSaved, input, disk, procs>>

SpecRoundTrip == InitRoundTrip /\ [][RoundTrip]_vars

(***************************************************************************)
(* Properties.  What a report says is read off the report alone; what it   *)
(* should say is stated from the files in the tree.                        *)
(***************************************************************************)
Validated == ret.op = "validate"

MdFiles == {p \in DOMAIN files : EndsWith(Name(p), MD)}

ParsedFiles == {p \in MdFiles : IsOk(parse_entry(p, files[p]))}

FrontMatterAt(p) == parse_entry(p, files[p]).value.front_matter

ParsedIds == {FrontMatterAt(p).id : p \in ParsedFiles}

\* the issues a report attaches to a file, in the order reported
IssuesOn(report, p) ==
    LET OnFile(i) == i.file = RelPath(p) IN SelectSeq(report.issues, OnFile)

\* those of them of one kind, told by the message
IssuesOfKind(report, p, kind) ==
    LET OfKind(i) == i.file = RelPath(p) /\ kind \in DOMAIN i.message
    IN  SelectSeq(report.issues, OfKind)

AllErrors(issues) == \A n \in DOMAIN issues : issues[n].level = "error"

Restrict(fs, S) == [p \in S |-> fs[p]]

\* C1: in a repository whose entries were all made by create_entry and
\* written by save_entry, validate_repo reports errors = 0, after any number
\* of such saves.
C1_NewRepoHasNoErrors == Validated => ret.report.errors = 0

\* C2: after any sequence of save_entry calls, every id saved resolves, and
\* to an entry whose front matter equals that of the latest save of that id.
C2_SavedResolves ==
    \A id \in DOMAIN lastSaved :
        LET r == resolve_entry(files, id)
        IN  IsOk(r) /\ r.value.front_matter = lastSaved[id]

\* C2, second part: a save of one id leaves what resolve_entry returns for
\* every other id as it was.
C2_OtherIdsUntouched ==
    [][\A raw \in ResolveIds :
          LET id == EntryId(raw)
              saved == {s \in DOMAIN lastSaved' :
                            s \notin DOMAIN lastSaved \/ lastSaved'[s] # lastSaved[s]}
          IN  (IsOk(id) /\ id.value \notin saved)
                  => resolve_entry(files', raw) = resolve_entry(files, raw)]_vars

\* C3: for every id carried by k >= 1 parsed files the report holds exactly
\* k-1 duplicate-id errors for it, one on each carrier but the first in path
\* order, each naming the first carrier's path.
C3_DuplicateIds ==
    Validated =>
        \A id \in ParsedIds :
            LET carriers == {p \in ParsedFiles : FrontMatterAt(p).id = id}
                first == CHOOSE p \in carriers : \A q \in carriers \ {p} : PathLess(p, q)
                dups == {n \in DOMAIN ret.report.issues :
                            /\ "duplicate_id" \in DOMAIN ret.report.issues[n].message
                            /\ ret.report.issues[n].message.duplicate_id = id}
            IN  /\ Cardinality(dups) = Cardinality(carriers) - 1
                /\ \A p \in carriers \ {first} :
                      Cardinality({n \in dups : ret.report.issues[n].file = RelPath(p)}) = 1
                /\ \A n \in dups :
                      /\ ret.report.issues[n].level = "error"
                      /\ ret.report.issues[n].file # RelPath(first)
                      /\ ret.report.issues[n].message.also_in = RelPath(first)

\* an id is carried by three parsed files, and the report was made
C3_Witness ==
    /\ Validated
    /\ \E id \in ParsedIds : Cardinality({p \in ParsedFiles : FrontMatterAt(p).id = id}) = 3

RelatedOf(fm) == IF IsNone(fm.related) THEN <<>> ELSE fm.related.some

\* C4: for every parsed entry e and every r in e.related, a related-not-found
\* error for r is on e's file exactly when no parsed entry has id r, wherever
\* that entry's file lies; a reference of an entry to itself gives no error.
C4_Related ==
    Validated =>
        \A p \in ParsedFiles :
            LET refs == RelatedOf(FrontMatterAt(p))
                found == IssuesOfKind(ret.report, p, "related_not_found")
            IN  /\ AllErrors(found)
                /\ \A j \in DOMAIN refs :
                      (\E n \in DOMAIN found : found[n].message.related_not_found = refs[j])
                          <=> refs[j] \notin ParsedIds
                /\ \A n \in DOMAIN found :
                      \E j \in DOMAIN refs : refs[j] = found[n].message.related_not_found

\* an entry refers to itself, to an entry in the wrong directory and to no
\* entry at all, and the report was made
C4_Witness ==
    /\ Validated
    /\ \E p \in ParsedFiles :
          LET refs == RelatedOf(FrontMatterAt(p))
          IN  /\ \E j \in DOMAIN refs : refs[j] = FrontMatterAt(p).id
              /\ \E j \in DOMAIN refs : refs[j] \notin ParsedIds
              /\ \E j \in DOMAIN refs, q \in ParsedFiles \ {p} :
                    /\ refs[j] = FrontMatterAt(q).id
                    /\ ParentName(q) # prefix(refs[j])

\* C5: a file that fails to parse gets exactly one issue, an error, and is
\* counted in entries_checked; every other file gets exactly the issues it
\* would get were the unparsable files absent; the report is complete.
C5_SchemaFailureIsolated ==
    Validated =>
        LET without == validate_repo(Restrict(files, ParsedFiles), today)
            errors == {n \in DOMAIN ret.report.issues : ret.report.issues[n].level = "error"}
            warnings == {n \in DOMAIN ret.report.issues : ret.report.issues[n].level = "warning"}
        IN  /\ \A p \in MdFiles \ ParsedFiles :
                  /\ Len(IssuesOn(ret.report, p)) = 1
                  /\ AllErrors(IssuesOn(ret.report, p))
            /\ ret.report.entries_checked = Cardinality(MdFiles)
            /\ \A p \in ParsedFiles : IssuesOn(ret.report, p) = IssuesOn(without, p)
            /\ ret.report.errors = Cardinality(errors)
            /\ ret.report.warnings = Cardinality(warnings)
            /\ errors \cup warnings = DOMAIN ret.report.issues

\* an unparsable file precedes, in path order, a parsed file that has issues
C5_Witness ==
    /\ Validated
    /\ \E b \in MdFiles \ ParsedFiles, p \in ParsedFiles :
          /\ PathLess(b, p)
          /\ Len(IssuesOn(ret.report, p)) >= 2

C6_IsKept(c) ==
    c \in Range(LowerChars) \cup Range(UpperChars) \cup Range(DigitChars) \cup {" ", "\t", "\n"}

RECURSIVE C6_Concat(_)
C6_Concat(parts) == IF parts = <<>> THEN <<>> ELSE Head(parts) \o C6_Concat(Tail(parts))

\* the slug of a title: the kept characters, word by word, the first eight
\* words only, lowercased, a hyphen before every word but the first
C6_Slug(title) ==
    LET s == SelectSeq(title, C6_IsKept)
        starts == {i \in DOMAIN s : ~IsSpace(s[i]) /\ (i = 1 \/ IsSpace(s[i - 1]))}
        word(i) == Cardinality({j \in starts : j <= i})
        emit(i) ==
            IF IsSpace(s[i]) \/ word(i) > 8 THEN <<>>
            ELSE (IF i \in starts /\ word(i) > 1 THEN <<"-">> ELSE <<>>) \o <<LowerChar(s[i])>>
    IN  C6_Concat([i \in DOMAIN s |-> emit(i)])

C6_ExpectedName(fm) ==
    IF C6_Slug(fm.title) = <<>> THEN fm.id \o <<".", "m", "d">>
    ELSE fm.id \o <<"-">> \o C6_Slug(fm.title) \o <<".", "m", "d">>

\* C6: for every parsed entry file a filename error is reported exactly when
\* the file's name differs from <id>-<slug>.md, or from <id>.md when the
\* title leaves no word.
C6_Filename ==
    Validated =>
        \A p \in ParsedFiles :
            LET found == IssuesOfKind(ret.report, p, "filename")
            IN  /\ AllErrors(found)
                /\ Len(found) <= 1
                /\ Len(found) = 1 <=> Name(p) # C6_ExpectedName(FrontMatterAt(p))

\* one parsed file is misnamed, another carries a title of more than eight
\* words under its eight-word name
C6_Witness ==
    /\ Validated
    /\ \E p, q \in ParsedFiles :
          /\ Len(IssuesOfKind(ret.report, p, "filename")) = 1
          /\ Len(Split(FrontMatterAt(q).title)) > 8
          /\ Len(IssuesOfKind(ret.report, q, "filename")) = 0

C7_Prefix(id) == IF Len(id) <= 2 THEN id ELSE <<id[1], id[2]>>

\* C7: for every parsed entry file a directory error is reported exactly
\* when the name of the file's parent directory differs from the id's
\* prefix, whether or not the filename check on that file failed.
C7_Directory ==
    Validated =>
        \A p \in ParsedFiles :
            LET found == IssuesOfKind(ret.report, p, "directory")
            IN  /\ AllErrors(found)
                /\ Len(found) <= 1
                /\ Len(found) = 1 <=> ParentName(p) # C7_Prefix(FrontMatterAt(p).id)

\* a parsed file is both misnamed and misplaced, and both errors are reported
C7_Witness ==
    /\ Validated
    /\ \E p \in ParsedFiles :
          /\ Len(IssuesOfKind(ret.report, p, "filename")) = 1
          /\ Len(IssuesOfKind(ret.report, p, "directory")) = 1

\* C8: for every valid entry e, parsing serialize_entry(e) succeeds and gives
\* a front matter equal to e.front_matter field by field.
C8_RoundTrip ==
    output # None => IsOk(output) /\ output.value.front_matter = input.front_matter

C9_Present(m, k) == k \in DOMAIN m /\ ~Is(m[k], "none")

C9_Base36(t) ==
    LET v == Lower(Strip(t))
    IN  Len(v) \in 1..8 /\ \A i \in DOMAIN v : v[i] \in Range(DigitChars) \cup Range(LowerChars)

C9_IsDate(v) ==
    \/ Is(v, "date")
    \/ Is(v, "datetime")
    \/ Is(v, "str") /\ IsOk(fromisoformat(v.str))

C9_Required(m) ==
    /\ C9_Present(m, "id") /\ C9_Base36(Str(m.id))
    /\ C9_Present(m, "title") /\ Is(m.title, "str") /\ Strip(m.title.str) # <<>>
    /\ C9_Present(m, "type") /\ Is(m.type, "str") /\ m.type.str \in {Q_AND_A, GUIDE, PATTERN, NOTE}
    /\ C9_Present(m, "tags") /\ Is(m.tags, "list")
    /\ \A i \in DOMAIN m.tags.list :
          ~Is(m.tags.list[i], "none") /\ Strip(Str(m.tags.list[i])) # <<>>
    /\ C9_Present(m, "created") /\ C9_IsDate(m.created)

C9_Optional(m) ==
    /\ C9_Present(m, "updated") => C9_IsDate(m.updated)
    /\ C9_Present(m, "status") =>
          Is(m.status, "str") /\ m.status.str \in {DRAFT, REVIEWED, OUTDATED}
    /\ C9_Present(m, "difficulty") => Is(m.difficulty, "str")
    /\ C9_Present(m, "author") => Is(m.author, "str")
    /\ C9_Present(m, "related") =>
          /\ Is(m.related, "list")
          /\ \A i \in DOMAIN m.related.list :
                ~Is(m.related.list[i], "none") /\ C9_Base36(Str(m.related.list[i]))
    /\ C9_Present(m, "source") =>
          Is(m.source, "dict") /\ \A p \in m.source.dict : Is(p[2], "str")

\* C9: EntryFrontMatter returns a front matter only if id, title, type, tags
\* and created are each present, non-null and valid and every optional field
\* supplied is valid; in every other case construction fails.
C9_AllOrNothing ==
    output # None => (IsOk(output) <=> C9_Required(input) /\ C9_Optional(input))

C10_IsLower36(s) ==
    Len(s) \in 1..8 /\ \A i \in DOMAIN s : s[i] \in Range(DigitChars) \cup Range(LowerChars)

\* C10 as stated: EntryId succeeds on the strings of 1-8 lowercase base-36
\* characters, with value the input, and fails on every other string.
C10_LowercaseOnly ==
    output # None =>
        IF C10_IsLower36(input) THEN IsOk(output) /\ output.value = Lower(input)
        ELSE ~IsOk(output)

\* C10: EntryId succeeds exactly on the strings that, with the whitespace
\* around them removed and their letters lowercased, are 1-8 lowercase
\* base-36 characters, and its value is that normalised string.
C10_Normalised ==
    output # None =>
        \E a \in 1..(Len(input) + 1), b \in 0..Len(input) :
            /\ a <= b + 1
            /\ \A i \in 1..(a - 1) : IsSpace(input[i])
            /\ \A i \in (b + 1)..Len(input) : IsSpace(input[i])
            /\ a <= b => ~IsSpace(input[a]) /\ ~IsSpace(input[b])
            /\ LET core == [i \in 1..(b - a + 1) |-> LowerChar(input[a + i - 1])]
               IN  IF C10_IsLower36(core) THEN IsOk(output) /\ output.value = core
                   ELSE ~IsOk(output)

\* an id was made of a string that holds a capital letter and whitespace
C10_Witness ==
    /\ output # None
    /\ IsOk(output)
    /\ \E i \in DOMAIN input : IsUpperChar(input[i])
    /\ Len(input) > Len(output.value)

C11_Canonical(id) == <<C7_Prefix(id), id \o <<".", "m", "d">>>>

\* what the claim says resolve_entry(raw) gives in the tree fs
C11_Expected(fs, raw, result) ==
    LET id == Lower(Strip(raw))
        missing == ~C10_IsLower36(id) \/ C11_Canonical(id) \notin DOMAIN fs
    IN  /\ (Is(result, "raised") /\ result.raised = "EntryNotFoundError") <=> missing
        /\ ~missing =>
              LET parsed == parse_entry(C11_Canonical(id), fs[C11_Canonical(id)])
              IN  IF IsOk(parsed) THEN result = parsed
                  ELSE Is(result, "raised") /\ result.raised = "EntryParseError"

\* C11: resolve_entry(raw) raises EntryNotFoundError exactly when raw is no
\* valid id or no file is at the id's canonical path, raises EntryParseError
\* when that file fails to parse, returns the parsed entry otherwise, and in
\* no case changes the repository.
C11_Resolve ==
    [][ret'.op = "resolve" =>
          /\ files' = files
          /\ C11_Expected(files', ret'.raw_id, ret'.result)]_vars

\* a file at a canonical path failed to parse, and resolving its id raised
\* EntryParseError
C11_Witness ==
    /\ ret.op = "resolve"
    /\ Is(ret.result, "raised")
    /\ ret.result.raised = "EntryParseError"
    /\ \E p \in DOMAIN files : IsOk(parse_entry(p, files[p]))

\* C12: iter_entries yields exactly the .md files below entries/ that parse,
\* each once, in path order; a file that fails to parse is skipped and does
\* not keep a later file from being yielded, and the enumeration does not
\* raise.
C12_IterEntries ==
    ret.op = "iter" =>
        /\ "entries" \in DOMAIN ret
        /\ \A n \in DOMAIN ret.entries :
              LET p == ret.entries[n].source_path.some
              IN  p \in ParsedFiles /\ Ok(ret.entries[n]) = parse_entry(p, files[p])
        /\ \A p \in ParsedFiles :
              Cardinality({n \in DOMAIN ret.entries : ret.entries[n].source_path.some = p}) = 1
        /\ \A m, n \in DOMAIN ret.entries :
              m < n => PathLess(ret.entries[m].source_path.some, ret.entries[n].source_path.some)

\* a file that fails to parse lies, in path order, between two files at
\* different depths that were both yielded
C12_Witness ==
    /\ ret.op = "iter"
    /\ Len(ret.entries) = 2
    /\ Len(ret.entries[1].source_path.some) # Len(ret.entries[2].source_path.some)
    /\ \E b \in MdFiles \ ParsedFiles :
          /\ PathLess(ret.entries[1].source_path.some, b)
          /\ PathLess(b, ret.entries[2].source_path.some)


C14_Lines(g) ==
    IF IsNone(g) THEN <<>>
    ELSE LET ps == SplitOn(g.some, "\n")
         IN  IF ps[Len(ps)] = <<>> THEN SubSeq(ps, 1, Len(ps) - 1) ELSE ps

C14_RuleCount(g) ==
    Cardinality({i \in DOMAIN C14_Lines(g) : C14_Lines(g)[i] = IndexRule})

\* a is b with some elements left out
RECURSIVE C14_IsSubsequence(_, _)
C14_IsSubsequence(a, b) ==
    IF a = <<>> THEN TRUE
    ELSE IF b = <<>> THEN FALSE
    ELSE IF Head(a) = Head(b) THEN C14_IsSubsequence(Tail(a), Tail(b))
    ELSE C14_IsSubsequence(a, Tail(b))

\* C14: after init the .gitignore holds the rule .knowledge/index.json as a
\* line of its own, init adds that line only when it was not there and then
\* once, and every line the file held before is still there, unchanged and
\* in the same order.
C14_GitignoreRule ==
    [][ret'.op = "init" =>
          /\ C14_RuleCount(disk'.gitignore) >= 1
          /\ C14_RuleCount(disk'.gitignore) =
                 (IF C14_RuleCount(disk.gitignore) >= 1
                  THEN C14_RuleCount(disk.gitignore) ELSE 1)
          /\ C14_IsSubsequence(C14_Lines(disk.gitignore), C14_Lines(disk'.gitignore))]_vars


\* the directories of the chain that hold the marker file
C15_Marked == {k \in DOMAIN input : input[k] = "file"}

C15_Done == Is(output, "returned") \/ Is(output, "raised")

\* C15: discover terminates; it returns the nearest directory of the chain
\* from the start to the filesystem root, both included, that holds the
\* marker file, raises RepoNotFoundError exactly when none does, and writes
\* nothing.
C15_Discover ==
    /\ <>C15_Done
    /\ [](C15_Done =>
            IF C15_Marked = {}
            THEN output = [raised |-> "RepoNotFoundError"]
            ELSE /\ Is(output, "returned")
                 /\ output.returned \in C15_Marked
                 /\ \A k \in C15_Marked : output.returned <= k)
    /\ [][files' = files /\ disk' = disk /\ input' = input]_vars

\* the nearest of two marked directories, beyond a directory whose
\* config.yaml is itself a directory
C15_Witness ==
    /\ Len(input) = MaxDepth /\ input[1] = "dir" /\ input[2] = "absent"
    /\ input[3] = "file" /\ input[MaxDepth] = "file"
    /\ output = [returned |-> 3]


\* the ids of the entries of es that carry tag t, in the order of es
RECURSIVE C16_Carrying(_, _)
C16_Carrying(es, t) ==
    IF es = <<>> THEN <<>>
    ELSE (IF t \in Range(Head(es).front_matter.tags) THEN <<Head(es).front_matter.id>> ELSE <<>>)
            \o C16_Carrying(Tail(es), t)

\* the ids of the entries of es that have type ty, in the order of es
RECURSIVE C16_OfType(_, _)
C16_OfType(es, ty) ==
    IF es = <<>> THEN <<>>
    ELSE (IF Head(es).front_matter.type = ty THEN <<Head(es).front_matter.id>> ELSE <<>>)
            \o C16_OfType(Tail(es), ty)

\* C16: the index is an exact projection of the enumeration: entry_count is
\* the length of entries and the number of entries iter_entries yields; each
\* tag bucket is the sequence of the ids of the entries carrying the tag, in
\* path order; each type bucket is the sequence of the ids of the entries of
\* that type; no bucket is empty; an empty repository gives 0 and no bucket.
C16_ExactProjection ==
    ret.op = "index" =>
        LET es == iter_entries(files)
            index == ret.index
        IN  /\ index.entry_count = Len(index.entries)
            /\ index.entry_count = Len(es)
            /\ DOMAIN index.tag_index =
                  UNION {Range(es[n].front_matter.tags) : n \in DOMAIN es}
            /\ \A t \in DOMAIN index.tag_index :
                  index.tag_index[t] = C16_Carrying(es, t) /\ index.tag_index[t] # <<>>
            /\ DOMAIN index.type_index = {es[n].front_matter.type : n \in DOMAIN es}
            /\ \A ty \in DOMAIN index.type_index :
                  index.type_index[ty] = C16_OfType(es, ty) /\ index.type_index[ty] # <<>>
            /\ (files = [p \in {} |-> Unreadable] =>
                    /\ index.entry_count = 0
                    /\ DOMAIN index.tag_index = {} /\ DOMAIN index.type_index = {})


\* today - created, in days
C17_Age(p) == DaysFromCivil(today) - DaysFromCivil(FrontMatterAt(p).created)

C17_IsDraft(p) ==
    ~IsNone(FrontMatterAt(p).status) /\ FrontMatterAt(p).status.some = DRAFT

\* C17: a parsed entry gets the draft warning exactly when its status is
\* draft and it is more than 30 days old, and the no-update warning exactly
\* when updated is unset and it is more than 180 days old; both are
\* warnings, and the error count is what it is on a day when nothing is old.
C17_Staleness ==
    Validated =>
        /\ \A p \in ParsedFiles :
              /\ Len(IssuesOfKind(ret.report, p, "draft_days")) =
                    (IF C17_IsDraft(p) /\ C17_Age(p) > 30 THEN 1 ELSE 0)
              /\ Len(IssuesOfKind(ret.report, p, "no_update_days")) =
                    (IF IsNone(FrontMatterAt(p).updated) /\ C17_Age(p) > 180 THEN 1 ELSE 0)
        /\ \A n \in DOMAIN ret.report.issues :
              DOMAIN ret.report.issues[n].message \cap {"draft_days", "no_update_days"} # {}
                 => ret.report.issues[n].level = "warning"
        /\ ret.report.errors = validate_repo(files, Date(2000, 1, 1)).errors

\* one entry with both warnings, one draft of exactly 30 days with none, and
\* one without updated of exactly 180 days with none
C17_Witness ==
    /\ Validated
    /\ \E p \in ParsedFiles :
          /\ Len(IssuesOfKind(ret.report, p, "draft_days")) = 1
          /\ Len(IssuesOfKind(ret.report, p, "no_update_days")) = 1
    /\ \E p \in ParsedFiles :
          /\ C17_IsDraft(p) /\ C17_Age(p) = 30
          /\ IssuesOfKind(ret.report, p, "draft_days") = <<>>


C18_Count(report, level) ==
    Cardinality({n \in DOMAIN report.issues : report.issues[n].level = level})

\* C18: in every report, made by validate_repo or by add_error and
\* add_warning calls, errors is the number of issues of level error,
\* warnings the number of issues of level warning, the two add up to the
\* number of issues, and the report is clean exactly when it has no issue.
C18_ReportConsistent ==
    "report" \in DOMAIN ret =>
        /\ ret.report.errors = C18_Count(ret.report, "error")
        /\ ret.report.warnings = C18_Count(ret.report, "warning")
        /\ ret.report.errors + ret.report.warnings = Len(ret.report.issues)
        /\ is_clean(ret.report) <=> ret.report.issues = <<>>

\* validate_repo found warnings only: not clean, no error
C18_Witness ==
    /\ Validated
    /\ ret.report.errors = 0 /\ ret.report.warnings = 2
    /\ ~is_clean(ret.report)


C19_AllDone == procs.calls # <<>> /\ \A p \in DOMAIN procs.calls : procs.calls[p].pc \in {"done", "raised"}

\* C19: when two processes have run save_entry for entries of one id, in
\* whatever order their filesystem steps were taken, neither call raised
\* and the file at the canonical path holds exactly the serialization of
\* the entry whose write completed last.
C19_LastWriteWins ==
    C19_AllDone =>
        /\ \A p \in DOMAIN procs.calls : procs.calls[p].pc = "done"
        /\ procs.last \in DOMAIN procs.calls
        /\ files[procs.calls[procs.last].path] =
              Bytes(FileText(serialize_entry(procs.calls[procs.last].entry)))


\* C20: the prefix of a constructed EntryId is exactly 2 characters long and
\* is the first two characters of its value.
C20_PrefixTwoChars ==
    Is(output, "prefix") =>
        /\ Len(output.prefix) = 2
        /\ output.prefix = <<output.value[1], output.value[2]>>


\* C21: for every random draw, the smallest and the largest included,
\* generate_id returns an EntryId whose value is exactly 8 characters, all of
\* 0-9a-z, for which is_valid_base36 holds.
C21_GeneratedId ==
    Is(output, "ids") =>
        \A k \in DOMAIN output.ids :
            /\ IsOk(output.ids[k])
            /\ Len(output.ids[k].value) = 8
            /\ C10_IsLower36(output.ids[k].value)
            /\ is_valid_base36(output.ids[k].value)

\* ids were made of the draw 0 and of the largest draw
C21_Witness ==
    /\ Is(output, "ids") /\ Len(output.ids) = 2
    /\ input = <<<<0, 0, 0, 0, 0>>, <<255, 255, 255, 255, 255>>>>
    /\ IsOk(output.ids[1]) /\ IsOk(output.ids[2])
    /\ output.ids[1].value = <<"0", "0", "0", "0", "0", "0", "0", "0">>

\* the magnitude without its leading zero bytes
RECURSIVE C22_Norm(_)
C22_Norm(mag) == IF mag # <<>> /\ Head(mag) = 0 THEN C22_Norm(Tail(mag)) ELSE mag

\* C22: decode_base36(encode_base36(n)) = n for every n >= 0, 0 included;
\* encode_base36 raises for n < 0, and its text is made of 0-9a-z with no
\* leading zero unless n = 0.
C22_RoundTrip ==
    output # None =>
        IF input.sign < 0 THEN ~IsOk(output.encoded)
        ELSE /\ IsOk(output.encoded)
             /\ output.encoded.value # <<>>
             /\ \A i \in DOMAIN output.encoded.value :
                   IsDigit(output.encoded.value[i]) \/ IsLowerChar(output.encoded.value[i])
             /\ (output.encoded.value[1] = "0" =>
                    output.encoded.value = <<"0">> /\ C22_Norm(input.mag) = <<>>)
             /\ (Is(output, "decoded") =>
                    /\ IsOk(output.decoded)
                    /\ output.decoded.value.sign = 1
                    /\ C22_Norm(output.decoded.value.mag) = C22_Norm(input.mag))

\* a number of three bytes came back from its text of five digits
C22_Witness ==
    /\ output # None /\ Is(output, "decoded")
    /\ input = BigInt(1, <<255, 255, 255>>)
    /\ Len(output.encoded.value) = 5
    /\ output.decoded.value.mag = <<255, 255, 255>>

\* C24: generate_id maps different random draws to different ids: two
\* generated ids are the same only when the draws are.
C24_Injective ==
    (Is(output, "ids") /\ Len(output.ids) = 2
        /\ IsOk(output.ids[1]) /\ IsOk(output.ids[2])) =>
        (output.ids[1] = output.ids[2] => input[1] = input[2])


\* C23: in a repository for which validate_repo reports no error, every
\* entry iter_entries yields is returned by resolve_entry for its id: the
\* same source file, the same front matter.
C23_ValidatedResolves ==
    (Validated /\ ret.report.errors = 0) =>
        \A p \in ParsedFiles :
            resolve_entry(files, FrontMatterAt(p).id) = parse_entry(p, files[p])


\* C25: once init has completed, whatever save_entry, write_index,
\* validate_repo and init calls follow, discover from the root directory,
\* from entries/ or from a shard directory returns the repository rooted at
\* the initialised directory.
C25_Discoverable ==
    (HasRepo /\ (Is(output, "returned") \/ Is(output, "raised"))) =>
        output = [returned |-> Len(input) - 1]

=============================================================================
